---- MODULE Spec2Model ----
(***************************************************************************)
(* Model of the data-acquisition layer of the HIP-3 dashboard (src/api.py):*)
(* the HTTP client with backoff (_post), the listing-date resolver         *)
(* (_fetch_listing_date, _get_listing_dates, the candle semaphore and the  *)
(* process-wide listing-date cache) and the market aggregator              *)
(* (get_all_markets).                                                      *)
(*                                                                         *)
(* Representation of Python values:                                        *)
(*   None            <<>>            (an optional value v is <<v>>)        *)
(*   a list          a sequence                                            *)
(*   a dict          a function, or a record for a fixed set of keys       *)
(*   a float         an exact fraction, an infinity or nan (see the float  *)
(*                   section)                                              *)
(*   a datetime      days since 1970-01-01, seconds of the day and         *)
(*                   microseconds, UTC                                     *)
(***************************************************************************)
EXTENDS Bags, FiniteSets, Integers, Sequences, TLC

VARIABLES
    \* ---- one call of _post (specification SpecPost) ----
    p_pc,        \* "idle" | "ready" | "done"
    p_retries,   \* the retries argument
    p_resps,     \* what the server answers to the 1st, 2nd, ... request
    p_out,       \* the outcome of the call: returned value or raised error
    p_log        \* the requests and sleeps of the call, in order

postVars == <<p_pc, p_retries, p_resps, p_out, p_log>>

VARIABLES
    \* ---- one call of _fetch_listing_date alone (specification SpecFetch) ----
    f_pc,        \* "idle" | "ready" | "done"
    f_fallback,  \* the fallback_iso argument
    f_resps,     \* what the server answers to the candleSnapshot requests
    f_result     \* the returned datetime, or None

fetchVars == <<f_pc, f_fallback, f_resps, f_result>>

VARIABLES
    \* ---- the listing-date resolver shared by all threads of the process ----
    cache,       \* _listing_date_cache: asset -> datetime or None
    sem,         \* free permits of _CANDLE_SEMAPHORE
    calls,       \* the running calls of _get_listing_dates, one per caller thread
    d_menu,      \* the argument lists a caller may pass (fixed per behaviour)
    candle_env   \* asset -> the answer scripts the server may give for its candles

dateVars == <<cache, sem, calls, d_menu, candle_env>>

VARIABLES
    \* ---- one call of get_all_markets by thread "t1" (specification SpecAgg) ----
    g_in,        \* what the world gives the call: the server's answers to the
                 \* perpDexs request (disc) and to the metaAndAssetCtxs request
                 \* of each sub-exchange (answers), and the clock (now)
    g            \* the frame of the call: pc, dexes, oi_cap_lookup, dex_info,
                 \* the futures not collected yet, raw_rows and the outcome

aggVars == <<g_in, g>>

VARIABLES
    \* ---- one call of get_dexes or of get_dex_markets alone (SpecQuery) ----
    q_pc,        \* "idle" | "ready" | "done"
    q_fn,        \* the function called: "get_dexes" | "get_dex_markets"
    q_resps,     \* what the server answers to its requests
    q_out        \* the outcome: the returned list, or the error raised

queryVars == <<q_pc, q_fn, q_resps, q_out>>

vars == <<postVars, fetchVars, dateVars, aggVars, queryVars>>

None == <<>>
Some(v) == <<v>>

(***************************************************************************)
(* HTTP client with backoff: _post                                         *)
(***************************************************************************)

\* Bounds of the _post specification.
MaxRetries == 4

\* retries: int = 4, the default retry budget.
DefaultRetries == 4

\* The status _post retries on.
RateLimited == 429

\* requests.post raised (connection error, timeout after 10 s): there is no
\* response; the exception leaves _post at once.
ConnErr == 0

Response(status, body) == [status |-> status, body |-> body]

\* resp.raise_for_status(): raises HTTPError for 4xx and 5xx.
raise_for_status(resp) == resp.status >= 400 /\ resp.status < 600

Returned(resp) == [kind |-> "return", status |-> resp.status, value |-> resp.body]
Raised(resp) == [kind |-> "raise", status |-> resp.status, value |-> None]
NoOutcome == [kind |-> "none", status |-> 0, value |-> None]

Request(n) == [ev |-> "request", arg |-> n]
Sleep(d) == [ev |-> "sleep", arg |-> d]

\* resp.raise_for_status(); return resp.json()
finish(resp, log) ==
    IF resp.status = ConnErr \/ raise_for_status(resp)
    THEN [out |-> Raised(resp), log |-> log]
    ELSE [out |-> Returned(resp), log |-> log]

is_rate_limited_retry_503(resp) == resp.status = RateLimited \/ resp.status = 503

\* if resp.status_code == 429
is_rate_limited(resp) == resp.status = RateLimited

RECURSIVE post_loop_constant_delay(_, _, _, _, _)
post_loop_constant_delay(resps, retries, attempt, delay, log) ==
    LET resp == resps[attempt + 1]
        log1 == Append(log, Request(attempt + 1))
    IN  IF attempt < retries
        THEN IF resp.status = ConnErr
             THEN [out |-> Raised(resp), log |-> log1]
             ELSE IF is_rate_limited(resp)
                  THEN post_loop_constant_delay(resps, retries, attempt + 1, delay,
                                                Append(log1, Sleep(delay)))
                  ELSE finish(resp, log1)
        ELSE finish(resp, log1)

\* The for loop of _post followed by the final attempt. attempt counts the
\* passes of the loop so far, resps[attempt + 1] is the answer to the next
\* request.
RECURSIVE post_loop(_, _, _, _, _)
post_loop(resps, retries, attempt, delay, log) ==
    LET resp == resps[attempt + 1]
        log1 == Append(log, Request(attempt + 1))
    IN  IF attempt < retries
        THEN IF resp.status = ConnErr
             THEN [out |-> Raised(resp), log |-> log1]
             ELSE IF is_rate_limited(resp)
                  THEN post_loop(resps, retries, attempt + 1, delay * 2,
                                 Append(log1, Sleep(delay)))
                  ELSE finish(resp, log1)
        ELSE finish(resp, log1)

_post_one_attempt_short(resps, retries) ==
    post_loop(resps, IF retries > 0 THEN retries - 1 ELSE 0, 0, 1, <<>>)

\* def _post(payload, retries=4): delay = 1.0; for attempt in range(retries)
_post(resps, retries) == post_loop(resps, retries, 0, 1, <<>>)

\* Candle lists used as JSON bodies.
Candle(t) == [t |-> t]

PostBodies == {<<>>, <<Candle(Some(86401500))>>}

PostResponses ==
    {Response(200, b) : b \in PostBodies}
    \cup {Response(s, None) : s \in {RateLimited, 404, 503, ConnErr}}

\* All sequences of length n over S.
Tuples(S, n) == [1..n -> S]

(***************************************************************************)
(* Datetimes and datetime.fromisoformat                                    *)
(***************************************************************************)

SecondsPerDay == 86400

\* A datetime in UTC: whole days since 1970-01-01, seconds of the day and
\* microseconds.
DateTime(days, sec, us) == [days |-> days, sec |-> sec, us |-> us]

Min(a, b) == IF a < b THEN a ELSE b

\* s[i] and s[i:j] of a Python string (0-based, end exclusive).
CharAt(s, i) == SubSeq(s, i + 1, i + 1)
Slice(s, i, j) == SubSeq(s, i + 1, Min(j, Len(s)))

DigitOf(ch) ==
    CASE ch = "0" -> 0 [] ch = "1" -> 1 [] ch = "2" -> 2 [] ch = "3" -> 3
      [] ch = "4" -> 4 [] ch = "5" -> 5 [] ch = "6" -> 6 [] ch = "7" -> 7
      [] ch = "8" -> 8 [] ch = "9" -> 9 [] OTHER -> -1

\* F(v), with v evaluated once however often F uses it: the value a local
\* variable holds.
Once(v, F(_)) == CHOOSE r \in {F(x) : x \in {v}} : TRUE

\* The number written by the digits s[i:j], -1 when one of them is no digit
\* or the slice is empty or runs past the end of s.
RECURSIVE NumberAt(_, _, _)
NumberAt(s, i, j) ==
    IF j > Len(s) \/ i >= j THEN -1
    ELSE LET d == DigitOf(CharAt(s, j - 1))
         IN  IF d < 0 THEN -1
             ELSE IF j - 1 = i THEN d
             ELSE Once(NumberAt(s, i, j - 1),
                       LAMBDA hi : IF hi < 0 THEN -1 ELSE hi * 10 + d)

\* The number of digits of s from position i on.
RECURSIVE DigitRun(_, _)
DigitRun(s, i) ==
    IF i >= Len(s) \/ DigitOf(CharAt(s, i)) < 0 THEN 0 ELSE 1 + DigitRun(s, i + 1)

RECURSIVE Pow10(_)
Pow10(n) == IF n = 0 THEN 1 ELSE 10 * Pow10(n - 1)

IsLeap(y) == (y % 4 = 0 /\ y % 100 # 0) \/ y % 400 = 0

DaysInMonth(y, m) ==
    CASE m \in {1, 3, 5, 7, 8, 10, 12} -> 31
      [] m \in {4, 6, 9, 11} -> 30
      [] OTHER -> IF IsLeap(y) THEN 29 ELSE 28

\* Days from 1970-01-01 to y-m-d in the proleptic Gregorian calendar.
DaysFromCivil(y, m, d) ==
    LET yy == IF m <= 2 THEN y - 1 ELSE y
        era == yy \div 400
        yoe == yy - era * 400
        mp == IF m > 2 THEN m - 3 ELSE m + 9
        doy == (153 * mp + 2) \div 5 + d - 1
        doe == yoe * 365 + yoe \div 4 - yoe \div 100 + doy
    IN  era * 146097 + doe - 719468

\* The byte at position i of the NUL-terminated buffer of s; "" is the NUL
\* past its end.
ByteAt(s, i) == IF i >= 0 /\ i < Len(s) THEN CharAt(s, i) ELSE ""

IsDigit(ch) == DigitOf(ch) >= 0

\* Where the date part of s ends (len(s) >= 7): 10 for YYYY-MM-DD and
\* YYYY-Www-D, 8 for YYYYMMDD, YYYY-Www and YYYYWwwD, 7 for YYYYWww; -1 for
\* the 9 bytes YYYY-Www-, whose day digit is missing.
_find_isoformat_datetime_separator(s) ==
    LET len == Len(s)
        idx == 7 + DigitRun(s, 7)
    IN  IF len = 7 THEN 7
        ELSE IF CharAt(s, 4) = "-"
        THEN IF CharAt(s, 5) = "W"
             THEN IF len < 8 THEN -1
                  ELSE IF len > 8 /\ CharAt(s, 8) = "-"
                  THEN IF len = 9 THEN -1
                       ELSE IF len > 10 /\ IsDigit(CharAt(s, 10)) THEN 8
                       ELSE 10
                  ELSE 8
             ELSE 10
        ELSE IF CharAt(s, 4) = "W"
        THEN IF idx < 9 THEN idx ELSE IF idx % 2 = 0 THEN 7 ELSE 8
        ELSE 8

\* Monday is 0. n counts days from 1970-01-01, a Thursday.
WeekdayOf(n) == (n + 3) % 7

\* The year, month and day of the day n days after 1970-01-01.
ord_to_ymd(n) ==
    LET z == n + 719468
        era == z \div 146097
        doe == z - era * 146097
        yoe == (doe - doe \div 1460 + doe \div 36524 - doe \div 146096) \div 365
        doy == doe - (365 * yoe + yoe \div 4 - yoe \div 100)
        mp == (5 * doy + 2) \div 153
        d == doy - (153 * mp + 2) \div 5 + 1
        m == IF mp < 10 THEN mp + 3 ELSE mp - 9
        y == yoe + era * 400 + (IF m <= 2 THEN 1 ELSE 0)
    IN  <<y, m, d>>

\* The Monday of ISO week 1 of the year, in days from 1970-01-01.
iso_week1_monday(year) ==
    LET first_day == DaysFromCivil(year, 1, 1)
        first_weekday == WeekdayOf(first_day)
        week1_monday == first_day - first_weekday
    IN  IF first_weekday > 3 THEN week1_monday + 7 ELSE week1_monday

\* The calendar date of an ISO year, week and weekday: None when the week or
\* the day is out of range. Week 53 exists in years that start on a Thursday
\* and in leap years that start on a Wednesday.
iso_to_ymd(iso_year, iso_week, iso_day) ==
    LET first_weekday == WeekdayOf(DaysFromCivil(iso_year, 1, 1))
        has53 == first_weekday = 3 \/ (first_weekday = 2 /\ IsLeap(iso_year))
    IN  IF (iso_week <= 0 \/ iso_week >= 53) /\ ~(iso_week = 53 /\ has53)
        THEN None
        ELSE IF iso_day <= 0 \/ iso_day >= 8 THEN None
        ELSE Some(ord_to_ymd(iso_week1_monday(iso_year)
                             + (iso_week - 1) * 7 + iso_day - 1))

\* The date part s[0:len]: <<year, month, day>> of YYYY-MM-DD, YYYYMMDD,
\* YYYY-Www[-D] or YYYYWww[D], not yet checked for range; None when a digit or
\* a dash is missing.
parse_isoformat_date(s, len) ==
    LET year == NumberAt(s, 0, 4)
        uses_separator == ByteAt(s, 4) = "-"
        p == IF uses_separator THEN 5 ELSE 4
        iso_week == NumberAt(s, p + 1, p + 3)
        has_day == p + 3 < len
        day_at == IF uses_separator THEN p + 4 ELSE p + 3
        iso_day == IF has_day THEN NumberAt(s, day_at, day_at + 1) ELSE 1
        month == NumberAt(s, p, p + 2)
        dd_at == IF uses_separator THEN p + 3 ELSE p + 2
        day == NumberAt(s, dd_at, dd_at + 2)
    IN  IF year < 0 THEN None
        ELSE IF ByteAt(s, p) = "W"
        THEN IF iso_week < 0 THEN None
             ELSE IF has_day /\ uses_separator /\ ByteAt(s, p + 3) # "-" THEN None
             ELSE IF iso_day < 0 THEN None
             ELSE iso_to_ymd(year, iso_week, iso_day)
        ELSE IF month < 0 THEN None
        ELSE IF uses_separator /\ ByteAt(s, p + 2) # "-" THEN None
        ELSE IF day < 0 THEN None
        ELSE Some(<<year, month, day>>)

\* What parse_hh_mm_ss_ff hands back: hour, minute, second, microsecond, and
\* rv, which is 1 when it stopped before a byte other than NUL.
Parsed(vals, us, rv) ==
    [hour |-> vals[1], minute |-> vals[2], second |-> vals[3], us |-> us, rv |-> rv]

\* The fraction from p on: up to six digits are read (and all of s[p:p_end]
\* must be digits if there are fewer than six), more digits are skipped.
parse_fraction(s, p_end, p, vals) ==
    LET to_parse == Min(p_end - p, 6)
        us == NumberAt(s, p, p + to_parse)
        stop == p + to_parse + DigitRun(s, p + to_parse)
    IN  IF us < 0 THEN None
        ELSE Some(Parsed(vals, us * Pow10(6 - to_parse),
                         IF ByteAt(s, stop) # "" THEN 1 ELSE 0))

\* Pass i (0 for the hour) of the loop over HH[:?MM[:?SS]] from p on. The
\* two digits are followed by the byte c: at or past p_end the loop returns,
\* whatever c is; a ":" (in the form with colons) leads to the next field; a
\* "." or "," to the fraction; without colons c starts the next field.
RECURSIVE parse_hms(_, _, _, _, _, _)
parse_hms(s, p_end, p, i, separated, vals) ==
    LET c == ByteAt(s, p + 2)
        has_separator == IF i = 0 THEN c = ":" ELSE separated
        next(q, vals1) ==
            IF i < 2 THEN parse_hms(s, p_end, q, i + 1, has_separator, vals1)
            ELSE parse_fraction(s, p_end, q, vals1)
        field(vals1) ==
            IF vals1[i + 1] < 0 THEN None
            ELSE IF p + 3 >= p_end
            THEN Some(Parsed(vals1, 0, IF c # "" THEN 1 ELSE 0))
            ELSE IF has_separator /\ c = ":" THEN next(p + 3, vals1)
            ELSE IF c \in {".", ","} THEN parse_fraction(s, p_end, p + 3, vals1)
            ELSE IF ~has_separator THEN next(p + 2, vals1)
            ELSE None
    IN  Once([vals EXCEPT ![i + 1] = NumberAt(s, p, p + 2)], field)

\* HH[:MM[:SS[.f+]]] or HH[MM[SS[.f+]]] in s[p:p_end]; None when it fails.
parse_hh_mm_ss_ff(s, p, p_end) == parse_hms(s, p_end, p, 0, TRUE, <<0, 0, 0>>)

\* The position of the first Z, + or - of s from i on, Len(s) if none.
RECURSIVE TzinfoPos(_, _)
TzinfoPos(s, i) ==
    IF i >= Len(s) \/ CharAt(s, i) \in {"Z", "+", "-"} THEN i
    ELSE TzinfoPos(s, i + 1)

\* The time part of s from p on, with its UTC offset: None when it fails,
\* else the time and tz, which is None without an offset and else
\* Some(<<seconds, microseconds>>). What parse_hh_mm_ss_ff left unread before
\* the offset is not looked at.
parse_isoformat_time(s, p) ==
    LET p_end == Len(s)
        tzsign(tzinfo_pos) == IF CharAt(s, tzinfo_pos) = "-" THEN -1 ELSE 1
        offset(tzinfo_pos, time, tz) ==
            IF tz = None THEN None
            ELSE IF tz[1].rv # 0 THEN None
            ELSE Some([time |-> time[1],
                       tz |-> Some(<<tzsign(tzinfo_pos)
                                       * (tz[1].hour * 3600 + tz[1].minute * 60
                                          + tz[1].second),
                                     tzsign(tzinfo_pos) * tz[1].us>>)])
        with_tz(tzinfo_pos, time) ==
            IF time = None THEN None
            ELSE IF tzinfo_pos = p_end
            THEN IF time[1].rv = 1 THEN None
                 ELSE Some([time |-> time[1], tz |-> None])
            ELSE IF CharAt(s, tzinfo_pos) = "Z"
            THEN IF tzinfo_pos + 1 # p_end THEN None
                 ELSE Some([time |-> time[1], tz |-> Some(<<0, 0>>)])
            ELSE Once(parse_hh_mm_ss_ff(s, tzinfo_pos + 1, p_end),
                      LAMBDA tz : offset(tzinfo_pos, time, tz))
    IN  Once(TzinfoPos(s, p), LAMBDA tzinfo_pos :
            Once(parse_hh_mm_ss_ff(s, p, tzinfo_pos),
                 LAMBDA time : with_tz(tzinfo_pos, time)))

\* timezone(timedelta(seconds, microseconds)) exists: the offset is zero or
\* strictly between -24h and 24h. The microseconds carry the sign of the
\* seconds and stay below one second, so the seconds decide.
ValidOffset(tz) == tz[1] > -SecondsPerDay /\ tz[1] < SecondsPerDay

\* The range checks of the datetime constructor.
check_date_args(ymd) ==
    /\ ymd[1] >= 1 /\ ymd[1] <= 9999
    /\ ymd[2] >= 1 /\ ymd[2] <= 12
    /\ ymd[3] >= 1 /\ ymd[3] <= DaysInMonth(ymd[1], ymd[2])

check_time_args(t) == t.hour <= 23 /\ t.minute <= 59 /\ t.second <= 59

\* datetime.fromisoformat(s) followed by .replace(tzinfo=timezone.utc), as
\* CPython 3.11 parses an ASCII string s: None for ValueError. The offset is
\* validated and then replaced, not converted: the wall-clock fields are kept.
fromisoformat_utc(dtstr) ==
    LET made(date, t) ==
            IF ~(check_date_args(date[1]) /\ check_time_args(t)) THEN None
            ELSE Some(DateTime(DaysFromCivil(date[1][1], date[1][2], date[1][3]),
                               t.hour * 3600 + t.minute * 60 + t.second, t.us))
        with_time(date, tm) ==
            IF tm = None THEN None
            ELSE IF tm[1].tz # None /\ ~ValidOffset(tm[1].tz[1]) THEN None
            ELSE made(date, tm[1].time)
        with_date(s, separator_location, date) ==
            IF date = None THEN None
            ELSE IF Len(s) > separator_location
            THEN Once(parse_isoformat_time(s, separator_location + 1),
                      LAMBDA tm : with_time(date, tm))
            ELSE made(date, Parsed(<<0, 0, 0>>, 0, 0))
        parsed(s) ==
            IF Len(s) < 7 THEN None
            ELSE Once(_find_isoformat_datetime_separator(s),
                      LAMBDA separator_location :
                          IF separator_location < 0 THEN None
                          ELSE Once(parse_isoformat_date(s, separator_location),
                                    LAMBDA date :
                                        with_date(s, separator_location, date)))
    IN  Once(dtstr, parsed)

\* datetime.fromtimestamp(t / 1000, tz=timezone.utc) for integer milliseconds t.
fromtimestamp_ms(t) ==
    DateTime(t \div 86400000, (t % 86400000) \div 1000, (t % 1000) * 1000)

(***************************************************************************)
(* Listing-date resolution of one asset: _fetch_listing_date               *)
(***************************************************************************)

\* fallback_iso[:26]
TruncateLen == 26

\* The body of the try block inside the semaphore: the candleSnapshot request
\* and the first candle's open time. None when the function falls through to
\* the fallback: the request raised, no candle came back, or candles[0]["t"]
\* is missing or no number (KeyError, TypeError caught by except Exception).
candle_date(resps) ==
    LET r == _post(resps, DefaultRetries).out
    IN  IF r.kind = "return" /\ Len(r.value) > 0 /\ r.value[1].t # None
        THEN Some(fromtimestamp_ms(r.value[1].t[1]))
        ELSE None

\* if fallback_iso: try: fromisoformat(fallback_iso[:26]).replace(tzinfo=utc)
fallback_date(fallback) ==
    IF fallback # None /\ Len(fallback[1]) > 0
    THEN fromisoformat_utc(Slice(fallback[1], 0, TruncateLen))
    ELSE None

_fetch_listing_date_fallback_first(fallback, resps) ==
    IF fallback_date(fallback) # None THEN fallback_date(fallback)
    ELSE candle_date(resps)

\* _fetch_listing_date(asset, fallback_iso); resps is the server's answers to
\* the candleSnapshot requests for the asset.
_fetch_listing_date(fallback, resps) ==
    IF candle_date(resps) # None THEN candle_date(resps)
    ELSE fallback_date(fallback)

\* ---- inputs ----
\* Open times of first candles, in milliseconds.
CandleTimes == {86401500, 172800000}

CandleBodies ==
    {<<>>, <<Candle(None)>>}
    \cup {<<Candle(Some(t))>> : t \in CandleTimes}
    \cup {<<Candle(Some(86401500)), Candle(Some(172800000))>>}

CandleResponses ==
    {Response(200, b) : b \in CandleBodies}
    \cup {Response(s, None) : s \in {RateLimited, 404, ConnErr}}

\* The answers to one call of _post with the default budget: k rate-limit
\* answers, then r for every later request.
Script(k, r) ==
    [i \in 1..(DefaultRetries + 1) |->
        IF i <= k THEN Response(RateLimited, None) ELSE r]

CandleScripts ==
    {Script(k, r) : k \in 0..(DefaultRetries + 1), r \in CandleResponses}

FallbackStrings ==
    {"", "garbage", "1970-13-02T00:00:05",
     "1970-01-02T00:00:05", "1970-01-02T00:00:05.123456789",
     "1970-01-03T10:20:30+05:00", "1970-01-03T10:20:30.5+05:00",
     "1971-03-01", "1970-01-02T00:00:05+05:60", "1970-01-02T00:05",
     "19700102", "1970-W01-5T00:00:05 Z"}

Fallbacks == {None} \cup {Some(s) : s \in FallbackStrings}

(***************************************************************************)
(* _get_listing_dates: worker pool, candle semaphore and persistent cache  *)
(***************************************************************************)

\* threading.Semaphore(6)
CandlePermits == 6

\* ThreadPoolExecutor(max_workers=12)
PoolWorkers == 12

\* The caller threads: two aggregation cycles that may overlap in one process
\* (two sessions of the dashboard refreshing at once).
Calls == {"t1", "t2"}

\* Bounds on the argument lists of the resolver specifications.
MaxList == 2
MaxBurst == 4
MaxPoolTasks == 13

EmptyDict == [k \in {} |-> None]

\* d[k] = v on a dict.
DictSet(d, k, v) == (k :> v) @@ d

Pair(asset, fallback) == [asset |-> asset, fallback |-> fallback]

\* A submitted _fetch_listing_date(asset, fallback) and where its thread is:
\*   "queued"    submitted, no worker thread runs it yet
\*   "waiting"   a worker runs it and blocks in `with _CANDLE_SEMAPHORE`
\*   "holding"   holds a permit, the candleSnapshot _post is in flight
\*   "released"  left the with block without a candle, fallback not parsed yet
\*   "done"      the future has its result val
Task(pair, st, val) ==
    [asset |-> pair.asset, fallback |-> pair.fallback, st |-> st, val |-> val]

One(t) == SetToBag({t})

\* The bag b with one copy of t replaced by t2.
Move(b, t, t2) == (b (-) One(t)) (+) One(t2)

CountIn(b, states) ==
    BagCardinality([t \in {u \in BagToSet(b) : u.st \in states} |-> b[t]])

\* Tasks a worker thread of the call's pool is running.
Running(call) == CountIn(call.tasks, {"waiting", "holding", "released"})

\* The frame of one call of _get_listing_dates:
\*   pc        "idle" | "scan" | "pool" | "done"
\*   input     the pairs of assets_with_fallbacks the scan loop has not visited
\*   results, to_fetch   the locals of that name (to_fetch is dropped once
\*             its tasks are submitted)
\*   tasks     the futures not collected yet, as a bag of tasks
\*   cached0   the assets the cache held when the call began (kept during
\*             the call, to speak about "a later call")
\*   assets    the assets of the argument list
IdleCall ==
    [pc |-> "idle", input |-> <<>>, results |-> EmptyDict,
     to_fetch |-> <<>>, tasks |-> EmptyBag, cached0 |-> {}, assets |-> {}]

\* One pass of the scan loop that ignores the cache.
scan_one_always_fetch(call, store, pair) ==
    [call EXCEPT !.to_fetch = Append(@, pair), !.input = Tail(@)]

\* for asset, fallback in assets_with_fallbacks: one pass of the loop.
scan_one(call, store, pair) ==
    IF pair.asset \in DOMAIN store
    THEN [call EXCEPT !.results = DictSet(@, pair.asset, store[pair.asset]),
                      !.input = Tail(@)]
    ELSE [call EXCEPT !.to_fetch = Append(@, pair), !.input = Tail(@)]

RECURSIVE SeqToBag(_)
SeqToBag(q) == IF q = <<>> THEN EmptyBag ELSE One(Head(q)) (+) SeqToBag(Tail(q))

\* futures = {executor.submit(_fetch_listing_date, asset, fallback): asset ...}
submit_all(to_fetch) ==
    SeqToBag([i \in 1..Len(to_fetch) |-> Task(to_fetch[i], "queued", None)])

can_acquire_unguarded(permits) == TRUE

\* Semaphore.acquire() returns only when the counter is positive.
can_acquire(permits) == permits > 0

\* What no step of the resolver changes.
resolverFrame == <<d_menu, candle_env, postVars, fetchVars, aggVars, queryVars>>

\* The frame of a call that enters _get_listing_dates while the cache is store.
enter_call(input, store) ==
    [IdleCall EXCEPT !.pc = "scan", !.input = input, !.cached0 = DOMAIN store,
                     !.assets = {input[i].asset : i \in 1..Len(input)}]

\* A caller thread enters _get_listing_dates(assets_with_fallbacks).
BeginCall(c, input) ==
    /\ calls[c].pc \in {"idle", "done"}
    /\ calls' = [calls EXCEPT ![c] = enter_call(input, cache)]
    /\ UNCHANGED <<cache, sem, resolverFrame>>

\* One pass of the loop of lines 102-106.
ScanStep(c) ==
    /\ calls[c].pc = "scan"
    /\ calls[c].input # <<>>
    /\ calls' = [calls EXCEPT ![c] = scan_one(@, cache, Head(@.input))]
    /\ UNCHANGED <<cache, sem, resolverFrame>>

\* if to_fetch: open the pool and submit every pair; else return results.
Submit(c) ==
    /\ calls[c].pc = "scan"
    /\ calls[c].input = <<>>
    /\ LET call == calls[c]
       IN  calls' = [calls EXCEPT ![c] =
                        IF call.to_fetch # <<>>
                        THEN [call EXCEPT !.pc = "pool", !.to_fetch = <<>>,
                                          !.tasks = submit_all(call.to_fetch)]
                        ELSE [call EXCEPT !.pc = "done", !.cached0 = {}]]
    /\ UNCHANGED <<cache, sem, resolverFrame>>

worker_free_unbounded(running) == TRUE

\* ThreadPoolExecutor(max_workers=12): a queued task starts only while fewer
\* than 12 worker threads are busy.
worker_free(running) == running < PoolWorkers

\* A worker thread of the pool takes a queued task.
StartTask(c, t) ==
    /\ calls[c].pc = "pool"
    /\ BagIn(t, calls[c].tasks) /\ t.st = "queued"
    /\ worker_free(Running(calls[c]))
    /\ calls' = [calls EXCEPT ![c].tasks = Move(@, t, [t EXCEPT !.st = "waiting"])]
    /\ UNCHANGED <<cache, sem, resolverFrame>>

\* with _CANDLE_SEMAPHORE: the permit is taken, the request goes out.
Acquire(c, t) ==
    /\ BagIn(t, calls[c].tasks) /\ t.st = "waiting"
    /\ can_acquire(sem)
    /\ sem' = sem - 1
    /\ calls' = [calls EXCEPT ![c].tasks = Move(@, t, [t EXCEPT !.st = "holding"])]
    /\ UNCHANGED <<cache, resolverFrame>>

release_on_candle_only(permits, d) == IF d # None THEN permits + 1 ELSE permits

\* Leaving `with _CANDLE_SEMAPHORE:` releases the permit, whether the block
\* returns the candle date d, falls through or caught an exception.
release_on_exit(permits, d) == permits + 1

\* _post has returned or raised; the with block is left and the permit
\* released. With a candle the function returns its open time.
CandleDone(c, t, resps) ==
    /\ BagIn(t, calls[c].tasks) /\ t.st = "holding"
    /\ resps \in candle_env[t.asset]
    /\ sem' = release_on_exit(sem, candle_date(resps))
    /\ LET d == candle_date(resps)
           t2 == IF d # None
                 THEN [t EXCEPT !.st = "done", !.val = d]
                 ELSE [t EXCEPT !.st = "released"]
       IN  calls' = [calls EXCEPT ![c].tasks = Move(@, t, t2)]
    /\ UNCHANGED <<cache, resolverFrame>>

\* Lines 88-94: the fallback is parsed outside the semaphore.
FallbackStep(c, t) ==
    /\ BagIn(t, calls[c].tasks) /\ t.st = "released"
    /\ calls' = [calls EXCEPT ![c].tasks =
                    Move(@, t, [t EXCEPT !.st = "done",
                                         !.val = fallback_date(t.fallback)])]
    /\ UNCHANGED <<cache, sem, resolverFrame>>

\* for future in as_completed(futures): the caller stores one finished result.
Collect(c, t) ==
    /\ calls[c].pc = "pool"
    /\ BagIn(t, calls[c].tasks) /\ t.st = "done"
    /\ cache' = DictSet(cache, t.asset, t.val)
    /\ LET call == calls[c]
       IN  calls' = [calls EXCEPT ![c] =
                        [call EXCEPT !.tasks = call.tasks (-) One(t),
                                     !.results = DictSet(call.results, t.asset, t.val)]]
    /\ UNCHANGED <<sem, resolverFrame>>

all_collected_early(tasks) == TRUE

\* The loop over as_completed(futures) ends when every future was yielded.
all_collected(tasks) == tasks = EmptyBag

\* Every future was collected: the pool shuts down, results is returned.
Return(c) ==
    /\ calls[c].pc = "pool"
    /\ all_collected(calls[c].tasks)
    /\ calls' = [calls EXCEPT ![c].pc = "done", ![c].cached0 = {}]
    /\ UNCHANGED <<cache, sem, resolverFrame>>

TasksOf(c) == BagToSet(calls[c].tasks)

Begin == \E c \in Calls : \E input \in d_menu : BeginCall(c, input)
Scan == \E c \in Calls : ScanStep(c)
SubmitAll == \E c \in Calls : Submit(c)
WorkerStart == \E c \in Calls : \E t \in TasksOf(c) : StartTask(c, t)
GateEnter == \E c \in Calls : \E t \in TasksOf(c) : Acquire(c, t)
GateLeave ==
    \E c \in Calls : \E t \in TasksOf(c) : \E resps \in candle_env[t.asset] :
        CandleDone(c, t, resps)
ParseFallback == \E c \in Calls : \E t \in TasksOf(c) : FallbackStep(c, t)
CollectOne == \E c \in Calls : \E t \in TasksOf(c) : Collect(c, t)
ReturnResults == \E c \in Calls : Return(c)

\* The single caller of the pool specification.
BeginFirst == \E input \in d_menu : BeginCall("t1", input)

NextPool ==
    \/ BeginFirst
    \/ Scan
    \/ SubmitAll
    \/ WorkerStart
    \/ GateEnter
    \/ GateLeave
    \/ ParseFallback
    \/ CollectOne
    \/ ReturnResults

NextDates ==
    \/ Begin
    \/ Scan
    \/ SubmitAll
    \/ WorkerStart
    \/ GateEnter
    \/ GateLeave
    \/ ParseFallback
    \/ CollectOne
    \/ ReturnResults

\* ---- inputs of the resolver specifications ----
DateAssets == {"dx:A", "dx:B"}

\* The asset dx:A trades (its candle request may still fail), dx:B never
\* traded: the server has no candle for it.
AnswersOf(asset) ==
    IF asset = "dx:A"
    THEN {Script(0, Response(200, <<Candle(Some(86401500))>>)),
          Script(1, Response(200, <<Candle(Some(86401500))>>)),
          Script(0, Response(404, None))}
    ELSE {Script(0, Response(200, <<>>)),
          Script(DefaultRetries + 1, Response(RateLimited, None))}

\* Every way out of the gated section: a candle, a candle without open time,
\* no candle, an HTTP error, exhausted retries, a connection error.
GateAnswers(asset) ==
    AnswersOf(asset)
    \cup {Script(0, Response(200, <<Candle(None)>>)),
          Script(0, Response(200, <<>>)),
          Script(0, Response(404, None)),
          Script(DefaultRetries + 1, Response(RateLimited, None)),
          Script(0, Response(ConnErr, None))}

DatePairs ==
    {Pair("dx:A", None), Pair("dx:B", Some("1970-01-02T00:00:05.123456789"))}

RECURSIVE ListsUpTo(_, _)
ListsUpTo(S, n) == IF n = 0 THEN {} ELSE Tuples(S, n) \cup ListsUpTo(S, n - 1)

\* n times the same pair.
Burst(pair, n) == [i \in 1..n |-> pair]

DateIdle ==
    /\ cache = EmptyDict
    /\ sem = CandlePermits
    /\ calls = [c \in Calls |-> IdleCall]
    /\ d_menu = {}
    /\ candle_env = [a \in DateAssets |-> {}]

(***************************************************************************)
(* Floats and float()                                                      *)
(*                                                                         *)
(* A finite float is the exact fraction p/q in lowest terms (q > 0); the   *)
(* infinities are p = 1 or -1 over q = 0, and nan is its own kind.         *)
(* Rounding, overflow to infinity and the sign of zero are not modelled.   *)
(***************************************************************************)
RECURSIVE Gcd(_, _)
Gcd(a, b) == IF b = 0 THEN a ELSE Once(a % b, LAMBDA m : Gcd(b, m))

Abs(n) == IF n < 0 THEN -n ELSE n

Fin(p, q) ==
    LET d == Gcd(Abs(p), q)
    IN  [k |-> "fin", p |-> p \div d, q |-> q \div d]

Inf(sign) == [k |-> "inf", p |-> sign, q |-> 0]
NaN == [k |-> "nan", p |-> 0, q |-> 0]
Zero == Fin(0, 1)

Sign(x) == IF x.p > 0 THEN 1 ELSE IF x.p < 0 THEN -1 ELSE 0

\* x * y
FMul(a, b) ==
    Once(a, LAMBDA x : Once(b, LAMBDA y :
        IF x.k = "nan" \/ y.k = "nan" THEN NaN
        ELSE IF x.k = "inf" \/ y.k = "inf"
             THEN IF Sign(x) * Sign(y) = 0 THEN NaN ELSE Inf(Sign(x) * Sign(y))
             ELSE Fin(x.p * y.p, x.q * y.q)))

\* x / y for y other than 0
FDiv(a, b) ==
    Once(a, LAMBDA x : Once(b, LAMBDA y :
        IF x.k = "nan" \/ y.k = "nan" THEN NaN
        ELSE IF y.k = "inf" THEN (IF x.k = "inf" THEN NaN ELSE Zero)
        ELSE IF x.k = "inf" THEN Inf(Sign(x) * Sign(y))
        ELSE Fin(Sign(y) * x.p * y.q, x.q * Abs(y.p))))

\* x > 0, x >= 0 and bool(x)
FPositive(x) == x.k # "nan" /\ x.p > 0
FNonNegative(x) == x.k # "nan" /\ x.p >= 0
FTruthy(x) == x.k # "fin" \/ x.p # 0

\* The position of the first "." of s from position i on, Len(s) if none.
RECURSIVE DotAt(_, _)
DotAt(s, i) ==
    IF i >= Len(s) \/ CharAt(s, i) = "." THEN i ELSE DotAt(s, i + 1)

\* float(s) for a string s of the forms [+-]digits[.[digits]], [+-].digits,
\* [+-]inf, nan:
\* None for ValueError. (Exponents, surrounding blanks and underscores, which
\* float() also accepts, do not occur in the inputs of this model.)
float_of_str(s) ==
    LET neg == Len(s) > 0 /\ CharAt(s, 0) = "-"
        signed == Len(s) > 0 /\ CharAt(s, 0) \in {"-", "+"}
        b == IF signed THEN Slice(s, 1, Len(s)) ELSE s
        sg == IF neg THEN -1 ELSE 1
        dot == DotAt(b, 0)
        ip == IF dot = 0 /\ Len(b) > 1 THEN 0 ELSE NumberAt(b, 0, dot)
        nfr == Len(b) - dot - 1
        fr == IF nfr = 0 /\ dot > 0 THEN 0 ELSE NumberAt(b, dot + 1, Len(b))
    IN  IF b \in {"inf", "Infinity", "infinity", "Inf"} THEN Some(Inf(sg))
        ELSE IF b \in {"nan", "NaN"} THEN Some(NaN)
        ELSE IF dot = Len(b)
             THEN (IF ip < 0 THEN None ELSE Some(Fin(sg * ip, 1)))
        ELSE IF ip < 0 \/ fr < 0 THEN None
        ELSE Some(Fin(sg * (ip * Pow10(nfr) + fr), Pow10(nfr)))

\* float(v) of a JSON scalar v (None or a string): None for ValueError or
\* TypeError.
float_of(v) == Once(v, LAMBDA x : IF x = None THEN None ELSE float_of_str(x[1]))

\* float(v or 0) with except (ValueError, TypeError): 0.0
float_or_zero(v) ==
    IF v = None \/ v[1] = "" THEN Zero
    ELSE IF float_of(v) = None THEN Zero ELSE float_of(v)[1]

\* def _to_float(val)
_to_float(val) == float_of(val)

(***************************************************************************)
(* Sub-exchange discovery and market fetch: get_dexes, get_dex_markets     *)
(*                                                                         *)
(* A JSON object is a record whose fields are optional (None: the key is   *)
(* missing); a JSON scalar is None (null) or Some(string).                 *)
(***************************************************************************)

\* A sub-exchange of the perpDexs answer; caps is assetToStreamingOiCap, a
\* list of pairs, each pair a list of JSON scalars (a null pair is <<>>).
Dex(name, fullName, deployer, caps) ==
    [name |-> name, fullName |-> fullName, deployer |-> deployer, caps |-> caps]

RECURSIVE get_dexes_until_null(_)
get_dexes_until_null(data) ==
    IF data = <<>> \/ Head(data) = None THEN <<>>
    ELSE <<Head(data)[1]>> \o get_dexes_until_null(Tail(data))

\* return [d for d in data if d is not None]
get_dexes(data) ==
    LET kept == SelectSeq(data, LAMBDA d : d # None)
    IN  [i \in 1..Len(kept) |-> kept[i][1]]

\* dict.get(key, default) of an optional field.
GetOr(field, default) == IF field = None THEN default ELSE field[1]

\* An entry of the universe array and of the asset-context array.
Meta(name, isDelisted, maxLeverage, growthMode, changeTime) ==
    [name |-> name, isDelisted |-> isDelisted, maxLeverage |-> maxLeverage,
     growthMode |-> growthMode, lastGrowthModeChangeTime |-> changeTime]

Ctx(funding, openInterest, prevDayPx, dayNtlVlm, markPx, oraclePx) ==
    [funding |-> funding, openInterest |-> openInterest, prevDayPx |-> prevDayPx,
     dayNtlVlm |-> dayNtlVlm, markPx |-> markPx, oraclePx |-> oraclePx]

\* if ctx is None: ctx = {}
EmptyCtx == Ctx(None, None, None, None, None, None)

\* The metaAndAssetCtxs answer: n is len(data), universe is
\* data[0].get("universe") (None when data[0] is no dict or has no such key),
\* ctxs is data[1].
MarketData(n, universe, ctxs) == [n |-> n, universe |-> universe, ctxs |-> ctxs]

\* markets.append({...}) for one zipped pair.
market_of(meta, ctx0) ==
    LET ctx == IF ctx0 = None THEN EmptyCtx ELSE ctx0[1]
    IN  [asset |-> GetOr(meta.name, ""),
         max_leverage |-> meta.maxLeverage,
         growth_mode |-> meta.growthMode,
         last_growth_mode_change_time |-> meta.lastGrowthModeChangeTime,
         funding |-> ctx.funding,
         open_interest |-> ctx.openInterest,
         prev_day_px |-> ctx.prevDayPx,
         day_ntl_vlm |-> ctx.dayNtlVlm,
         mark_px |-> ctx.markPx,
         oracle_px |-> ctx.oraclePx]

RECURSIVE zip_markets_keep_delisted(_, _, _)
zip_markets_keep_delisted(universe, asset_ctxs, i) ==
    IF i > Len(universe) \/ i > Len(asset_ctxs) THEN <<>>
    ELSE <<market_of(universe[i], asset_ctxs[i])>>
         \o zip_markets_keep_delisted(universe, asset_ctxs, i + 1)

\* The loop over zip(universe, asset_ctxs) from index i on.
RECURSIVE zip_markets(_, _, _)
zip_markets(universe, asset_ctxs, i) ==
    IF i > Len(universe) \/ i > Len(asset_ctxs) THEN <<>>
    ELSE LET rest == zip_markets(universe, asset_ctxs, i + 1)
         IN  IF universe[i].isDelisted THEN rest
             ELSE <<market_of(universe[i], asset_ctxs[i])>> \o rest

\* def get_dex_markets(dex_name), applied to the JSON answer of _post.
get_dex_markets(data) ==
    LET universe == IF data.n > 0 /\ data.universe # None
                    THEN data.universe[1] ELSE <<>>
        asset_ctxs == IF data.n > 1 THEN data.ctxs ELSE <<>>
    IN  zip_markets(universe, asset_ctxs, 1)

(***************************************************************************)
(* Market aggregator: get_all_markets                                      *)
(***************************************************************************)

\* for pair in dex.get("assetToStreamingOiCap", []) or []: one pass.
cap_step(lookup, pair) ==
    IF Len(pair) < 2 THEN lookup
    ELSE IF float_of(pair[2]) = None THEN lookup
    ELSE DictSet(lookup, pair[1][1], float_of(pair[2])[1])

RECURSIVE cap_fold(_, _)
cap_fold(lookup, pairs) ==
    IF pairs = <<>> THEN lookup
    ELSE cap_fold(cap_step(lookup, Head(pairs)), Tail(pairs))

\* Lines 130-144: oi_cap_lookup over all sub-exchanges, in list order.
RECURSIVE oi_cap_lookup(_, _)
oi_cap_lookup(lookup, dexes) ==
    IF dexes = <<>> THEN lookup
    ELSE oi_cap_lookup(cap_fold(lookup, GetOr(Head(dexes).caps, <<>>)),
                       Tail(dexes))

\* dex_info[name] = {"full_name": ..., "deployer": ...}; later entries win.
RECURSIVE dex_info(_, _)
dex_info(info, dexes) ==
    IF dexes = <<>> THEN info
    ELSE LET d == Head(dexes)
             name == GetOr(d.name, "")
         IN  dex_info(DictSet(info, name,
                              [full_name |-> GetOr(d.fullName, name),
                               deployer |-> GetOr(d.deployer, "")]),
                      Tail(dexes))

\* The position after the last ":" of s (0 if there is none), from i down.
RECURSIVE AfterLastColon(_, _)
AfterLastColon(s, i) ==
    IF i = 0 THEN 0
    ELSE IF CharAt(s, i - 1) = ":" THEN i ELSE AfterLastColon(s, i - 1)

\* asset.split(":")[-1] if ":" in asset else asset
ticker_of(asset) == Slice(asset, AfterLastColon(asset, Len(asset)), Len(asset))

open_interest_usd_native_only(oi_float, mark_float) == oi_float

\* open_interest_usd = oi_float * mark_float
open_interest_usd(oi_float, mark_float) == FMul(oi_float, mark_float)

cap_usable_nonzero(oi_cap) == oi_cap # None /\ FTruthy(oi_cap[1])

\* if oi_cap and oi_cap > 0
cap_usable(oi_cap) ==
    oi_cap # None /\ FTruthy(oi_cap[1]) /\ FPositive(oi_cap[1])

Hundred == Fin(100, 1)

\* raw_rows.append({...}) for one market m of the sub-exchange dex_name.
raw_row(dex_name, info, lookup, m) ==
    LET asset == m.asset
        oi_cap == IF asset \in DOMAIN lookup THEN Some(lookup[asset]) ELSE None
        usd == open_interest_usd(float_or_zero(m.open_interest),
                                 float_or_zero(m.mark_px))
        known == dex_name \in DOMAIN info
    IN  [dex |-> dex_name,
         dex_full_name |-> IF known THEN info[dex_name].full_name ELSE dex_name,
         deployer |-> IF known THEN info[dex_name].deployer ELSE "",
         asset |-> asset,
         ticker |-> ticker_of(asset),
         mark_px |-> _to_float(m.mark_px),
         oracle_px |-> _to_float(m.oracle_px),
         day_ntl_vlm |-> _to_float(m.day_ntl_vlm),
         open_interest |-> usd,
         oi_cap |-> oi_cap,
         oi_cap_pct |-> IF cap_usable(oi_cap)
                        THEN Some(FMul(FDiv(usd, oi_cap[1]), Hundred))
                        ELSE None,
         funding |-> _to_float(m.funding),
         max_leverage |-> m.max_leverage,
         growth_mode |-> m.growth_mode,
         fallback_iso |-> m.last_growth_mode_change_time]

\* for m in markets: raw_rows.append(...)
rows_of(dex_name, info, lookup, markets) ==
    [i \in 1..Len(markets) |-> raw_row(dex_name, info, lookup, markets[i])]

\* x < y for floats other than nan.
FLess(x, y) ==
    IF x.k = "inf" THEN x.p < 0 /\ ~(y.k = "inf" /\ y.p < 0)
    ELSE IF y.k = "inf" THEN y.p > 0
    ELSE x.p * y.q < y.p * x.q

\* The printable ASCII characters in code-point order: 32 to 95, and 97 to
\* 126 (a string of this language cannot hold the grave accent, 96).
AsciiLow == " !\"#$%&'()*+,-./0123456789:;<=>?@ABCDEFGHIJKLMNOPQRSTUVWXYZ[\\]^_"
AsciiHigh == "abcdefghijklmnopqrstuvwxyz{|}~"

RECURSIVE IndexIn(_, _, _)
IndexIn(s, ch, i) ==
    IF i >= Len(s) \/ CharAt(s, i) = ch THEN i ELSE IndexIn(s, ch, i + 1)

\* ord(ch) of a printable ASCII character.
CharCode(ch) ==
    IF IndexIn(AsciiLow, ch, 0) < Len(AsciiLow)
    THEN 32 + IndexIn(AsciiLow, ch, 0)
    ELSE 97 + IndexIn(AsciiHigh, ch, 0)

\* a < b on strings, from position i on.
RECURSIVE StrLessFrom(_, _, _)
StrLessFrom(a, b, i) ==
    IF i >= Len(b) THEN FALSE
    ELSE IF i >= Len(a) THEN TRUE
    ELSE IF CharAt(a, i) = CharAt(b, i) THEN StrLessFrom(a, b, i + 1)
    ELSE CharCode(CharAt(a, i)) < CharCode(CharAt(b, i))

StrLess(a, b) == StrLessFrom(a, b, 0)

\* A missing value of a float column: None or nan.
IsNA(v) == v = None \/ v[1].k = "nan"

sorts_before_ascending(a, b) ==
    \/ StrLess(a.dex, b.dex)
    \/ /\ a.dex = b.dex
       /\ ~IsNA(a.day_ntl_vlm)
       /\ (IsNA(b.day_ntl_vlm) \/ FLess(a.day_ntl_vlm[1], b.day_ntl_vlm[1]))

\* Row a goes strictly before row b under
\* sort_values(["dex", "day_ntl_vlm"], ascending=[True, False]); missing
\* volumes go last within their sub-exchange.
sorts_before(a, b) ==
    \/ StrLess(a.dex, b.dex)
    \/ /\ a.dex = b.dex
       /\ ~IsNA(a.day_ntl_vlm)
       /\ (IsNA(b.day_ntl_vlm) \/ FLess(b.day_ntl_vlm[1], a.day_ntl_vlm[1]))

\* Insertion that keeps the order of rows with equal keys (the sort is stable).
RECURSIVE insert_row(_, _)
insert_row(sorted, r) ==
    IF sorted = <<>> THEN <<r>>
    ELSE IF sorts_before(r, Head(sorted)) THEN <<r>> \o sorted
    ELSE <<Head(sorted)>> \o insert_row(Tail(sorted), r)

RECURSIVE sort_into(_, _)
sort_into(sorted, rows) ==
    IF rows = <<>> THEN sorted
    ELSE Once(insert_row(sorted, Head(rows)),
              LAMBDA longer : sort_into(longer, Tail(rows)))

sort_values_skipped(rows) == rows

\* df.sort_values(...); df.reset_index(drop=True)
sort_values(rows) == sort_into(<<>>, rows)

\* (now - listing_dt).days if listing_dt else None: the days of the
\* normalised difference, one less when now is earlier in its day.
market_age_days(now, listing_dt) ==
    IF listing_dt = None THEN None
    ELSE LET d == listing_dt[1]
             earlier == now.sec < d.sec \/ (now.sec = d.sec /\ now.us < d.us)
         IN  Some((now.days - d.days) - (IF earlier THEN 1 ELSE 0))

\* Lines 210-217: the row without _fallback_iso, with its date and age.
final_row(row, listing_dates, now) ==
    LET listing_dt == IF row.asset \in DOMAIN listing_dates
                      THEN listing_dates[row.asset] ELSE None
    IN  [dex |-> row.dex, dex_full_name |-> row.dex_full_name,
         deployer |-> row.deployer, asset |-> row.asset, ticker |-> row.ticker,
         mark_px |-> row.mark_px, oracle_px |-> row.oracle_px,
         day_ntl_vlm |-> row.day_ntl_vlm, open_interest |-> row.open_interest,
         oi_cap |-> row.oi_cap, oi_cap_pct |-> row.oi_cap_pct,
         funding |-> row.funding, max_leverage |-> row.max_leverage,
         growth_mode |-> row.growth_mode,
         listing_date |-> listing_dt,
         market_age_days |-> market_age_days(now, listing_dt)]

final_rows(raw_rows, listing_dates, now) ==
    [i \in 1..Len(raw_rows) |-> final_row(raw_rows[i], listing_dates, now)]

\* assets_with_fallbacks = [(r["asset"], r["_fallback_iso"]) for r in raw_rows]
assets_with_fallbacks(raw_rows) ==
    [i \in 1..Len(raw_rows) |-> Pair(raw_rows[i].asset, raw_rows[i].fallback_iso)]

\* The outcome of get_all_markets: a table, or an exception that leaves it.
NoResult == [kind |-> "none", err |-> "", rows |-> <<>>]
Table(rows) == [kind |-> "table", err |-> "", rows |-> rows]
Failure(err) == [kind |-> "raise", err |-> err, rows |-> <<>>]

\* The frame of the call of get_all_markets:
\*   pc        "idle" | "start" | "fetching" | "dates" | "done"
\*   dexes, lookup (oi_cap_lookup), info (dex_info), raw_rows   the locals
\*   pending   the positions in dexes whose future is not collected yet
\*   out       the outcome once pc is "done"
IdleAgg ==
    [pc |-> "idle", dexes |-> <<>>, lookup |-> EmptyDict, info |-> EmptyDict,
     pending |-> {}, raw_rows |-> <<>>, out |-> NoResult]

\* ThreadPoolExecutor(max_workers=n) raises ValueError unless n > 0.
pool_size_ok(n) == n > 0

\* Lines 128-152: discovery, the lookups, the pool and its submits.
start_aggregation(disc) ==
    Once(_post(disc, DefaultRetries).out, LAMBDA r :
        IF r.kind # "return"
        THEN [IdleAgg EXCEPT !.pc = "done",
                             !.out = Failure(IF r.status = ConnErr
                                             THEN "RequestException"
                                             ELSE "HTTPError")]
        ELSE Once(get_dexes(r.value), LAMBDA dexes :
            IF ~pool_size_ok(Len(dexes))
            THEN [IdleAgg EXCEPT !.pc = "done", !.out = Failure("ValueError")]
            ELSE [IdleAgg EXCEPT !.pc = "fetching", !.dexes = dexes,
                                 !.lookup = oi_cap_lookup(EmptyDict, dexes),
                                 !.info = dex_info(EmptyDict, dexes),
                                 !.pending = 1..Len(dexes)]))

\* The future of get_dex_markets: Some(markets), or None if it raised.
future_result(resps) ==
    LET r == _post(resps, DefaultRetries).out
    IN  IF r.kind = "return" THEN Some(get_dex_markets(r.value)) ELSE None

collect_markets_no_catch(frame, i, result) ==
    IF result = None
    THEN [frame EXCEPT !.pc = "done", !.pending = {}, !.raw_rows = <<>>,
                       !.out = Failure("HTTPError")]
    ELSE [frame EXCEPT !.pending = @ \ {i},
                       !.raw_rows = @ \o rows_of(GetOr(frame.dexes[i].name, ""),
                                                 frame.info, frame.lookup, result[1])]

\* Lines 153-199: one pass of the loop over as_completed(futures).
collect_markets(frame, i, result) ==
    IF result = None
    THEN [frame EXCEPT !.pending = @ \ {i}]
    ELSE [frame EXCEPT !.pending = @ \ {i},
                       !.raw_rows = @ \o rows_of(GetOr(frame.dexes[i].name, ""),
                                                 frame.info, frame.lookup, result[1])]

\* What no step of get_all_markets itself changes.
aggFrame == <<g_in, d_menu, candle_env, postVars, fetchVars, queryVars>>

Discover ==
    /\ g.pc = "start"
    /\ g' = start_aggregation(g_in.disc)
    /\ UNCHANGED <<cache, sem, calls, aggFrame>>

\* The futures complete in any order.
CollectMarkets ==
    \E i \in g.pending :
        /\ g.pc = "fetching"
        /\ \E result \in {future_result(g_in.answers[GetOr(g.dexes[i].name, "")])} :
                g' = collect_markets(g, i, result)
        /\ UNCHANGED <<cache, sem, calls, aggFrame>>

\* if not raw_rows: return pd.DataFrame()
ReturnEmpty ==
    /\ g.pc = "fetching" /\ g.pending = {}
    /\ g.raw_rows = <<>>
    /\ g' = [g EXCEPT !.pc = "done", !.out = Table(<<>>)]
    /\ UNCHANGED <<cache, sem, calls, aggFrame>>

\* listing_dates = _get_listing_dates(assets_with_fallbacks): the call begins.
ResolveDates ==
    /\ g.pc = "fetching" /\ g.pending = {}
    /\ g.raw_rows # <<>>
    /\ g' = [g EXCEPT !.pc = "dates"]
    /\ calls' = [calls EXCEPT !["t1"] =
                    enter_call(assets_with_fallbacks(g.raw_rows), cache)]
    /\ UNCHANGED <<cache, sem, aggFrame>>

\* Lines 208-222 once _get_listing_dates has returned.
BuildTable ==
    /\ g.pc = "dates"
    /\ calls["t1"].pc = "done"
    /\ \E rows \in {final_rows(g.raw_rows, calls["t1"].results, g_in.now)} :
           g' = [g EXCEPT !.pc = "done", !.out = Table(sort_values(rows))]
    /\ UNCHANGED <<cache, sem, calls, aggFrame>>

NextAgg ==
    \/ Discover
    \/ CollectMarkets
    \/ ReturnEmpty
    \/ ResolveDates
    \/ Scan
    \/ SubmitAll
    \/ WorkerStart
    \/ GateEnter
    \/ GateLeave
    \/ ParseFallback
    \/ CollectOne
    \/ ReturnResults
    \/ BuildTable

\* ---- inputs of the aggregator specification ----

\* Bound on the length of a sub-exchange's cap-pair list.
MaxCaps == 2

\* The clock at line 208: 1970-01-04T00:00:00Z.
AggNow == DateTime(3, 0, 0)

DexNames == {"dx", "dy"}
AggAssets == {"dx:A", "dx:B", "dx:C", "dy:B", "dy:C"}

\* Native open interest and mark price as the snapshot may carry them.
NumScalars ==
    {None, Some(""), Some("abc"), Some("0"), Some("2"), Some("-3"),
     Some("1.5"), Some("inf"), Some("nan")}

\* Caps as a cap pair may carry them.
CapScalars ==
    {None, Some("abc"), Some("100"), Some("0"), Some("-5"), Some("nan"),
     Some("inf")}

CapPair(asset, cap) == <<Some(asset), cap>>

\* A null pair, a short pair and the pairs for dx:A.
CapPairs ==
    {<<>>, <<Some("dx:A")>>} \cup {CapPair("dx:A", c) : c \in CapScalars}

\* The key missing, an empty list, and the lists of up to MaxCaps pairs.
CapLists ==
    {None, Some(<<>>)} \cup {Some(l) : l \in ListsUpTo(CapPairs, MaxCaps)}

DexX(caps) == Dex(Some("dx"), Some("Dex X"), Some("0xd1"), caps)

\* dy has no full name and no deployer; it lists a cap for an asset of dx.
DexY ==
    Dex(Some("dy"), None, None,
        Some(<<CapPair("dx:A", Some("7")), CapPair("dy:B", Some("50"))>>))

\* dx lists one market.
DxMarkets(oi, mark) ==
    MarketData(2,
        Some(<<Meta(Some("dx:A"), FALSE, Some(20), Some("enabled"),
                    Some("1970-01-02T00:00:05"))>>),
        <<Some(Ctx(Some("0.0001"), oi, Some("1"), Some("10"), mark, Some("2")))>>)

\* dy lists dy:B, whose context is null, and the delisted dy:C.
DyMarkets ==
    MarketData(2,
        Some(<<Meta(Some("dy:B"), FALSE, None, None,
                    Some("1970-01-03T10:20:30+05:00")),
               Meta(Some("dy:C"), TRUE, Some(5), None, None)>>),
        <<None,
          Some(Ctx(Some("0"), Some("1"), Some("1"), Some("99"), Some("1"),
                   Some("1")))>>)

MarketOutcomes == {"ok", "empty", "404", "429", "conn"}

\* What the server answers to the metaAndAssetCtxs requests of a sub-exchange.
MarketAnswer(name, outcome) ==
    CASE outcome = "ok" ->
            IF name = "dx"
            THEN Script(1, Response(200, DxMarkets(Some("2"), Some("3"))))
            ELSE Script(0, Response(200, DyMarkets))
      [] outcome = "empty" -> Script(0, Response(200, MarketData(0, None, <<>>)))
      [] outcome = "404" -> Script(0, Response(404, None))
      [] outcome = "429" -> Script(DefaultRetries + 1, Response(RateLimited, None))
      [] OTHER -> Script(0, Response(ConnErr, None))

AggInput(disc, answers) == [disc |-> disc, answers |-> answers, now |-> AggNow]

OneCap == Some(<<CapPair("dx:A", Some("100"))>>)

\* One market of dx with every native open interest and mark price.
AggNumeric ==
    {AggInput(Script(0, Response(200, <<None, Some(DexX(OneCap))>>)),
              [n \in DexNames |->
                  IF n = "dx" THEN Script(0, Response(200, DxMarkets(oi, mk)))
                  ELSE MarketAnswer(n, "404")])
        : oi \in NumScalars, mk \in NumScalars}

\* One market of dx with every cap-pair list, alone or behind dy's pairs.
AggCaps ==
    {AggInput(Script(0, Response(200, body)),
              [n \in DexNames |->
                  MarketAnswer(n, IF n = "dx" THEN "ok" ELSE "404")])
        : body \in {<<Some(DexX(c))>> : c \in CapLists}
                   \cup {<<Some(DexY), Some(DexX(c))>> : c \in CapLists}}

DiscBodies ==
    {<<>>, <<None>>, <<None, None>>, <<Some(DexX(OneCap))>>,
     <<Some(DexX(OneCap)), None, Some(DexY)>>,
     <<Some(DexY), Some(DexX(OneCap))>>}

DiscScripts ==
    {Script(0, Response(200, b)) : b \in DiscBodies}
    \cup {Script(1, Response(200, <<Some(DexY)>>)),
          Script(0, Response(404, None)),
          Script(DefaultRetries + 1, Response(RateLimited, None))}

\* Every discovery answer with every way the market fetches may end.
AggFailures ==
    {AggInput(d, [n \in DexNames |-> MarketAnswer(n, o[n])])
        : d \in DiscScripts, o \in [DexNames -> MarketOutcomes]}

\* 24h notional volumes as the snapshot may carry them.
VolScalars == {None, Some("10"), Some("20")}

VolMeta(asset) == Meta(Some(asset), FALSE, Some(10), None, None)
VolCtx(vlm) == Ctx(Some("0"), Some("1"), Some("1"), vlm, Some("1"), Some("1"))

\* dx lists three markets with the given volumes.
DxThree(v1, v2, v3) ==
    MarketData(2,
        Some(<<VolMeta("dx:A"), VolMeta("dx:B"), VolMeta("dx:C")>>),
        <<Some(VolCtx(v1)), Some(VolCtx(v2)), Some(VolCtx(v3))>>)

\* dy is discovered before dx; dx lists three markets with every volume.
AggVolumes ==
    {AggInput(Script(0, Response(200, <<Some(DexY), Some(DexX(OneCap))>>)),
              [n \in DexNames |->
                  IF n = "dx" THEN Script(0, Response(200, DxThree(v1, v2, v3)))
                  ELSE MarketAnswer(n, "ok")])
        : v1 \in VolScalars, v2 \in VolScalars, v3 \in VolScalars}

AggInputs == AggNumeric \cup AggCaps \cup AggFailures \cup AggVolumes

\* dx:A trades; the assets of dy have no candle.
AggCandles(asset) ==
    IF asset = "dx:A"
    THEN {Script(0, Response(200, <<Candle(Some(86401500))>>))}
    ELSE {Script(0, Response(200, <<>>))}

AggIdle ==
    /\ g_in = AggInput(<<>>, EmptyDict)
    /\ g = IdleAgg

(***************************************************************************)
(* One call of get_dexes or get_dex_markets, with its request              *)
(***************************************************************************)

\* Bounds of the query specification: the lengths of the discovery list and
\* of the universe array (the context array may be one longer).
MaxDisc == 3
MaxUniverse == 2

\* data = _post(...); return <the list built from data>, or the error of _post.
query_result(fn, resps) ==
    LET r == _post(resps, DefaultRetries).out
    IN  IF r.kind # "return" THEN Raised(Response(r.status, None))
        ELSE IF fn = "get_dexes"
             THEN Returned(Response(r.status, get_dexes(r.value)))
             ELSE Returned(Response(r.status, get_dex_markets(r.value)))

GetDexes ==
    /\ q_pc = "ready" /\ q_fn = "get_dexes"
    /\ q_out' = query_result(q_fn, q_resps)
    /\ q_pc' = "done"
    /\ UNCHANGED <<q_fn, q_resps, postVars, fetchVars, dateVars, aggVars>>

GetDexMarkets ==
    /\ q_pc = "ready" /\ q_fn = "get_dex_markets"
    /\ q_out' = query_result(q_fn, q_resps)
    /\ q_pc' = "done"
    /\ UNCHANGED <<q_fn, q_resps, postVars, fetchVars, dateVars, aggVars>>

NextQuery == GetDexes \/ GetDexMarkets

\* ---- inputs of the query specification ----
AllListsUpTo(S, n) == {<<>>} \cup ListsUpTo(S, n)

\* Discovery lists of nulls and two distinct sub-exchanges.
DiscLists == AllListsUpTo({None, Some(DexX(OneCap)), Some(DexY)}, MaxDisc)

\* The i-th entry of a universe array, delisted or not.
NthMeta(i, delisted) ==
    Meta(Some(IF i = 1 THEN "m1" ELSE IF i = 2 THEN "m2"
              ELSE IF i = 3 THEN "m3" ELSE "m4"),
         delisted, Some(10), None, None)

Universes ==
    UNION {{[i \in 1..n |-> NthMeta(i, flags[i])] : flags \in [1..n -> BOOLEAN]}
           : n \in 0..MaxUniverse}

\* Context arrays of null slots and contexts, shorter or longer than the universe.
CtxArrays == AllListsUpTo({None, Some(VolCtx(Some("10")))}, MaxUniverse + 1)

MarketDatas ==
    {MarketData(2, Some(u), c) : u \in Universes, c \in CtxArrays}
    \cup {MarketData(1, Some(u), <<>>) : u \in Universes}
    \cup {MarketData(0, None, <<>>), MarketData(2, None, <<Some(VolCtx(None))>>)}

QueryFailures ==
    {Script(0, Response(404, None)), Script(0, Response(ConnErr, None)),
     Script(DefaultRetries + 1, Response(RateLimited, None))}

QueryIdle ==
    /\ q_pc = "idle"
    /\ q_fn = ""
    /\ q_resps = <<>>
    /\ q_out = NoOutcome

PostIdle ==
    /\ p_pc = "idle"
    /\ p_retries = 0
    /\ p_resps = <<>>
    /\ p_out = NoOutcome
    /\ p_log = <<>>

FetchIdle ==
    /\ f_pc = "idle"
    /\ f_fallback = None
    /\ f_resps = <<>>
    /\ f_result = None

InitFetch ==
    /\ f_pc = "ready"
    /\ f_fallback \in Fallbacks
    /\ f_resps \in CandleScripts
    /\ f_result = None
    /\ PostIdle
    /\ DateIdle
    /\ AggIdle
    /\ QueryIdle

FetchCall ==
    /\ f_pc = "ready"
    /\ f_result' = _fetch_listing_date(f_fallback, f_resps)
    /\ f_pc' = "done"
    /\ UNCHANGED <<f_fallback, f_resps, postVars, dateVars, aggVars, queryVars>>

NextFetch == FetchCall

SpecFetch == InitFetch /\ [][NextFetch]_vars

\* Overlapping callers with short argument lists over two assets.
InitDates ==
    /\ cache = EmptyDict
    /\ sem = CandlePermits
    /\ calls = [c \in Calls |-> IdleCall]
    /\ d_menu = ListsUpTo(DatePairs, MaxList)
    /\ candle_env = [a \in DateAssets |-> AnswersOf(a)]
    /\ PostIdle
    /\ FetchIdle
    /\ AggIdle
    /\ QueryIdle

Spec == InitDates /\ [][NextDates]_vars

\* Callers that each resolve a burst of tasks: more tasks than permits.
InitGate ==
    /\ cache = EmptyDict
    /\ sem = CandlePermits
    /\ calls = [c \in Calls |-> IdleCall]
    /\ d_menu = {Burst(Pair("dx:A", None), n) : n \in 1..MaxBurst}
    /\ candle_env = [a \in DateAssets |-> GateAnswers(a)]
    /\ PostIdle
    /\ FetchIdle
    /\ AggIdle
    /\ QueryIdle

SpecGate == InitGate /\ [][NextDates]_vars

\* One caller that resolves more tasks than its pool has workers.
InitPool ==
    /\ cache = EmptyDict
    /\ sem = CandlePermits
    /\ calls = [c \in Calls |-> IdleCall]
    /\ d_menu = {Burst(Pair("dx:A", Some("1970-01-02T00:00:05")), n)
                    : n \in 1..MaxPoolTasks}
    /\ candle_env = [a \in DateAssets |-> GateAnswers(a)]
    /\ PostIdle
    /\ FetchIdle
    /\ AggIdle
    /\ QueryIdle

SpecPool == InitPool /\ [][NextPool]_vars

InitPost ==
    /\ p_pc = "ready"
    /\ p_retries \in 0..MaxRetries
    /\ p_resps \in Tuples(PostResponses, p_retries + 1)
    /\ p_out = NoOutcome
    /\ p_log = <<>>
    /\ FetchIdle
    /\ DateIdle
    /\ AggIdle
    /\ QueryIdle

PostCall ==
    /\ p_pc = "ready"
    /\ LET r == _post(p_resps, p_retries)
       IN  /\ p_out' = r.out
           /\ p_log' = r.log
    /\ p_pc' = "done"
    /\ UNCHANGED <<p_retries, p_resps, fetchVars, dateVars, aggVars, queryVars>>

NextPost == PostCall

SpecPost == InitPost /\ [][NextPost]_vars

InitAgg ==
    /\ g_in \in AggInputs
    /\ g = [IdleAgg EXCEPT !.pc = "start"]
    /\ cache = EmptyDict
    /\ sem = CandlePermits
    /\ calls = [c \in Calls |-> IdleCall]
    /\ d_menu = {}
    /\ candle_env = [a \in AggAssets |-> AggCandles(a)]
    /\ PostIdle
    /\ FetchIdle
    /\ QueryIdle

SpecAgg == InitAgg /\ [][NextAgg]_vars

\* ---- an aggregation cycle while another cycle resolves listing dates ----

\* The inputs of the liveness specification: discovery fails, or lists no sub-exchange, or lists dx and dy, whose market
\* fetches succeed or fail independently.
LiveInputs ==
    {AggInput(d, [n \in DexNames |-> MarketAnswer(n, "404")])
        : d \in {Script(0, Response(200, <<>>)),
                 Script(DefaultRetries + 1, Response(RateLimited, None))}}
    \cup {AggInput(Script(1, Response(200, <<Some(DexX(OneCap)), None, Some(DexY)>>)),
                   [n \in DexNames |-> MarketAnswer(n, o[n])])
             : o \in [DexNames -> {"ok", "404"}]}

\* The argument lists of the other cycle: assets this cycle resolves too.
LiveMenu == {<<Pair("dy:B", None), Pair("dx:A", None)>>}

\* An aggregation that resolves dy:B while the other cycle asks for dy:B more
\* often than the gate has permits.
LiveBurstInputs ==
    {AggInput(Script(0, Response(200, <<Some(DexY)>>)),
              [n \in DexNames |-> MarketAnswer(n, "ok")])}

LiveBurstMenu == {Burst(Pair("dy:B", None), CandlePermits + 1)}

InitLive ==
    /\ \/ g_in \in LiveInputs /\ d_menu = LiveMenu
       \/ g_in \in LiveBurstInputs /\ d_menu = LiveBurstMenu
    /\ g = [IdleAgg EXCEPT !.pc = "start"]
    /\ cache = EmptyDict
    /\ sem = CandlePermits
    /\ calls = [c \in Calls |-> IdleCall]
    /\ candle_env = [a \in AggAssets |-> AggCandles(a)]
    /\ PostIdle
    /\ FetchIdle
    /\ QueryIdle

\* Thread t2, the listing-date phase of another aggregation cycle.
BeginSecond == \E input \in d_menu : BeginCall("t2", input)

NextLive ==
    \/ Discover
    \/ CollectMarkets
    \/ ReturnEmpty
    \/ ResolveDates
    \/ BeginSecond
    \/ Scan
    \/ SubmitAll
    \/ WorkerStart
    \/ GateEnter
    \/ GateLeave
    \/ ParseFallback
    \/ CollectOne
    \/ ReturnResults
    \/ BuildTable

\* A step of the caller thread c of _get_listing_dates or of a worker of
\* its pool.
ResolverStep(c) ==
    \/ ScanStep(c)
    \/ Submit(c)
    \/ \E t \in TasksOf(c) : StartTask(c, t)
    \/ \E t \in TasksOf(c) : Acquire(c, t)
    \/ \E t \in TasksOf(c) : \E resps \in candle_env[t.asset] : CandleDone(c, t, resps)
    \/ \E t \in TasksOf(c) : FallbackStep(c, t)
    \/ \E t \in TasksOf(c) : Collect(c, t)
    \/ Return(c)

\* A step of the aggregation cycle of thread t1.
AggregationStep ==
    \/ Discover
    \/ CollectMarkets
    \/ ReturnEmpty
    \/ ResolveDates
    \/ ResolverStep("t1")
    \/ BuildTable

\* The threads of a cycle that can take a step eventually take one, and
\* every HTTP call eventually returns or raises (Discover, CollectMarkets,
\* CandleDone). Nothing forces another cycle to begin.
LiveFairness ==
    /\ WF_vars(AggregationStep)
    /\ WF_vars(ResolverStep("t2"))

SpecLive == InitLive /\ [][NextLive]_vars /\ LiveFairness

InitQuery ==
    /\ q_pc = "ready"
    /\ \/ /\ q_fn = "get_dexes"
          /\ q_resps \in {Script(k, Response(200, l)) : k \in 0..1, l \in DiscLists}
                         \cup QueryFailures
       \/ /\ q_fn = "get_dex_markets"
          /\ q_resps \in {Script(k, Response(200, d)) : k \in 0..1, d \in MarketDatas}
                         \cup QueryFailures
    /\ q_out = NoOutcome
    /\ PostIdle
    /\ FetchIdle
    /\ DateIdle
    /\ AggIdle

SpecQuery == InitQuery /\ [][NextQuery]_vars

\* ---- observations on the log of a call ----
Requests(log) == SelectSeq(log, LAMBDA e : e.ev = "request")
Sleeps(log) == SelectSeq(log, LAMBDA e : e.ev = "sleep")
NumRequests(log) == Len(Requests(log))

\* The outcome a single response produces when nothing catches it.
IsAsIs(out, resp) ==
    /\ out.status = resp.status
    /\ IF resp.status = ConnErr \/ (resp.status >= 400 /\ resp.status <= 599)
       THEN out.kind = "raise"
       ELSE out.kind = "return" /\ out.value = resp.body

\* C4: for a retry budget n, _post issues at most n+1 requests; exactly n+1
\* iff the first n responses are all 429; and then the outcome of the
\* (n+1)-th request is returned or raised as is, a further 429 included.
C4_AttemptBudget ==
    p_pc = "done" =>
        LET n == p_retries
            k == NumRequests(p_log)
        IN  /\ k <= n + 1
            /\ (k = n + 1) <=> (\A i \in 1..n : p_resps[i].status = RateLimited)
            /\ (k = n + 1) => IsAsIs(p_out, p_resps[n + 1])

\* The default budget is used up by 429s and the fifth answer, a 429 again,
\* is raised.
C4_Witness ==
    /\ p_pc = "done"
    /\ p_retries = DefaultRetries
    /\ NumRequests(p_log) = DefaultRetries + 1
    /\ p_out.kind = "raise"
    /\ p_out.status = RateLimited

\* C5: the first response that is neither a 429 nor a success ends the call
\* with an error at once (no sleep, no further request after it), and the
\* first success response ends the call with its JSON value.
C5_FailFast ==
    p_pc = "done" =>
        \A i \in 1..Len(p_resps) :
            (/\ p_resps[i].status # RateLimited
             /\ \A j \in 1..(i - 1) : p_resps[j].status = RateLimited)
            => /\ NumRequests(p_log) = i
               /\ p_log[Len(p_log)] = Request(i)
               /\ Len(Sleeps(p_log)) = i - 1
               /\ IsAsIs(p_out, p_resps[i])

\* A 429, then a 404: the call raises after the second request although the
\* budget allows more.
C5_Witness ==
    /\ p_pc = "done"
    /\ p_retries >= 3
    /\ p_resps[1].status = RateLimited
    /\ p_resps[2].status = 404
    /\ p_out.kind = "raise"
    /\ p_out.status = 404
    /\ NumRequests(p_log) = 2
\* ---- C8 ----
\* The answer that decides a call of _post with the default budget: the first
\* one that is no 429, or the last one of the budget.
RECURSIVE DecidingAnswer(_, _)
DecidingAnswer(resps, i) ==
    IF i = DefaultRetries + 1 \/ resps[i].status # RateLimited
    THEN resps[i]
    ELSE DecidingAnswer(resps, i + 1)

GaveCandle(resps) ==
    LET r == DecidingAnswer(resps, 1)
    IN  r.status = 200 /\ Len(r.body) >= 1

FirstCandle(resps) == DecidingAnswer(resps, 1).body[1]

OpenTimeUtc(t) ==
    Some([days |-> t \div 86400000, sec |-> (t % 86400000) \div 1000,
          us |-> 1000 * (t % 1000)])

\* What Python 3.11 gives for datetime.fromisoformat(s).replace(tzinfo=utc) on
\* the whole string s, as days since 1970-01-01, seconds of the day and
\* microseconds.
WholeStringUtc(s) ==
    CASE s = "1970-01-02T00:00:05" -> Some([days |-> 1, sec |-> 5, us |-> 0])
      [] s = "1970-01-02T00:00:05.123456789" ->
            Some([days |-> 1, sec |-> 5, us |-> 123456])
      [] s = "1970-01-03T10:20:30+05:00" ->
            Some([days |-> 2, sec |-> 37230, us |-> 0])
      [] s = "1970-01-03T10:20:30.5+05:00" ->
            Some([days |-> 2, sec |-> 37230, us |-> 500000])
      [] s = "1971-03-01" -> Some([days |-> 424, sec |-> 0, us |-> 0])
      [] s = "1970-01-02T00:00:05+05:60" ->
            Some([days |-> 1, sec |-> 5, us |-> 0])
      [] s = "1970-01-02T00:05" -> Some([days |-> 1, sec |-> 300, us |-> 0])
      [] s = "19700102" -> Some([days |-> 1, sec |-> 0, us |-> 0])
      [] s = "1970-W01-5T00:00:05 Z" -> Some([days |-> 1, sec |-> 5, us |-> 0])
      [] OTHER -> None

\* The same on the first 26 characters of s: the 27-character string with
\* an offset loses the last digit of the offset and no longer parses.
First26Utc(s) ==
    IF s = "1970-01-03T10:20:30.5+05:00" THEN None ELSE WholeStringUtc(s)

\* C8 as stated: the candle's open time whenever the request succeeded with
\* at least one candle; otherwise the fallback forced to UTC whenever the
\* supplied string is a parseable ISO string; otherwise None.
C8_AsStated ==
    f_pc = "done" =>
        IF GaveCandle(f_resps)
        THEN /\ FirstCandle(f_resps).t # None
             /\ f_result = OpenTimeUtc(FirstCandle(f_resps).t[1])
        ELSE IF f_fallback # None /\ WholeStringUtc(f_fallback[1]) # None
             THEN f_result = WholeStringUtc(f_fallback[1])
             ELSE f_result = None

\* C8 (amended): if the request succeeds with at least one candle whose first
\* entry has a numeric open time t, the result is that time as UTC, whatever
\* the fallback; otherwise (request raised, no candle, or no usable t) if
\* the first 26 characters of a supplied fallback string parse, the result is
\* that truncated fallback forced to UTC; otherwise the result is None.
C8_Priority ==
    f_pc = "done" =>
        IF GaveCandle(f_resps) /\ FirstCandle(f_resps).t # None
        THEN f_result = OpenTimeUtc(FirstCandle(f_resps).t[1])
        ELSE IF f_fallback # None /\ First26Utc(f_fallback[1]) # None
             THEN f_result = First26Utc(f_fallback[1])
             ELSE f_result = None

\* A candle arrives after two rate-limit answers while a parseable fallback
\* was supplied too: the candle wins.
C8_Witness ==
    /\ f_pc = "done"
    /\ f_resps[2].status = RateLimited
    /\ GaveCandle(f_resps)
    /\ f_fallback = Some("1970-01-02T00:00:05.123456789")
    /\ f_result = Some([days |-> 1, sec |-> 1, us |-> 500000])
\* ---- C1, C6, C7 ----
TaskAssets(call) ==
    {t.asset : t \in BagToSet(call.tasks)}
    \cup {call.to_fetch[i].asset : i \in 1..Len(call.to_fetch)}

\* No candle request is prepared or running for an asset the cache held when
\* the call began.
NoFetchOfCached ==
    \A c \in Calls : calls[c].cached0 \cap TaskAssets(calls[c]) = {}

\* The scan loop meets a cached asset: it copies the cached value into
\* results and schedules nothing.
ScanHitCopies ==
    \A c \in Calls :
        (/\ calls[c].pc = "scan" /\ calls[c].input # <<>>
         /\ calls'[c].input = Tail(calls[c].input)
         /\ Head(calls[c].input).asset \in DOMAIN cache)
        => LET a == Head(calls[c].input).asset
           IN  /\ a \in DOMAIN calls'[c].results
               /\ calls'[c].results[a] = cache[a]
               /\ calls'[c].to_fetch = calls[c].to_fetch

\* The value copied for an asset cached at the start stays in results until
\* the call returns, unless the loop meets the asset again and copies the
\* cache's value of that moment.
HitValueKept ==
    \A c \in Calls : \A a \in calls[c].cached0 \cap DOMAIN calls[c].results :
        /\ a \in DOMAIN calls'[c].results
        /\ \/ calls'[c].results[a] = calls[c].results[a]
           \/ /\ calls[c].pc = "scan" /\ calls[c].input # <<>>
              /\ Head(calls[c].input).asset = a
              /\ calls'[c].results[a] = cache[a]

\* C1: a call of _get_listing_dates that starts after an asset's cache entry
\* is populated (a datetime or None) returns the cached value for it and
\* issues no candleSnapshot request for it; a cached None is not retried.
C1_CachedNotRefetched ==
    /\ []NoFetchOfCached
    /\ [][ScanHitCopies /\ HitValueKept]_vars

\* A call that began with dx:A cached as None has scanned its list, found
\* None and has nothing to fetch.
C1_Witness ==
    \E c \in Calls :
        /\ calls[c].pc = "scan" /\ calls[c].input = <<>>
        /\ "dx:A" \in calls[c].cached0
        /\ cache["dx:A"] = None
        /\ "dx:A" \in DOMAIN calls[c].results
        /\ calls[c].results["dx:A"] = None
        /\ calls[c].to_fetch = <<>>

InFlight == CountIn(calls["t1"].tasks, {"holding"}) + CountIn(calls["t2"].tasks, {"holding"})

\* C6: over all threads and all overlapping cycles, at most 6 candleSnapshot
\* requests (a request with its whole retry sequence in _post) are in flight.
C6_AtMostSixInFlight == InFlight <= CandlePermits

\* Six requests in flight, issued by both cycles, and a seventh task blocked
\* at the semaphore.
C6_Witness ==
    /\ InFlight = CandlePermits
    /\ \A c \in Calls : CountIn(calls[c].tasks, {"holding"}) >= 2
    /\ \E c \in Calls : CountIn(calls[c].tasks, {"waiting"}) >= 1
    /\ sem = 0

\* C7: the cache is write-once per asset: once an entry is populated its
\* value never changes.
C7_WriteOnce ==
    [][\A a \in DOMAIN cache : a \in DOMAIN cache' /\ cache'[a] = cache[a]]_vars

\* ---- observations on a call of get_all_markets ----
Finished == g.pc = "done"

\* The request was answered with a body (possibly after 429s).
Answered(resps) == DecidingAnswer(resps, 1).status = 200

\* The list the perpDexs request was answered with.
DiscoveredList == DecidingAnswer(g_in.disc, 1).body

ZeroSubExchanges ==
    /\ Answered(g_in.disc)
    /\ \A i \in 1..Len(DiscoveredList) : DiscoveredList[i] = None

\* The sub-exchanges of the discovered list, in order.
Discovered ==
    LET kept == SelectSeq(DiscoveredList, LAMBDA d : d # None)
    IN  [i \in 1..Len(kept) |-> kept[i][1]]

\* The markets the fetch of a sub-exchange returned.
MarketsOf(name) == get_dex_markets(DecidingAnswer(g_in.answers[name], 1).body)

\* C2: when discovery returns zero sub-exchanges (an empty list or a list of
\* only nulls), get_all_markets returns an empty result set and raises no
\* error.
C2_EmptyNotError ==
    (Finished /\ ZeroSubExchanges) => (g.out.kind = "table" /\ g.out.rows = <<>>)

RowKeys(rows) == SeqToBag([i \in 1..Len(rows) |-> <<rows[i].dex, rows[i].asset>>])

\* The (sub-exchange, asset) pairs of the sub-exchanges whose fetch succeeded.
RECURSIVE ExpectedKeys(_)
ExpectedKeys(dexes) ==
    IF dexes = <<>> THEN EmptyBag
    ELSE LET name == Head(dexes).name[1]
             ms == MarketsOf(name)
         IN  (IF Answered(g_in.answers[name])
              THEN SeqToBag([j \in 1..Len(ms) |-> <<name, ms[j].asset>>])
              ELSE EmptyBag) (+) ExpectedKeys(Tail(dexes))

\* C3: with at least one sub-exchange discovered, whichever market fetches
\* raise, get_all_markets returns a table that holds exactly the rows of the
\* sub-exchanges whose fetch succeeded; it is empty when every fetch fails.
C3_PartialResults ==
    (Finished /\ Answered(g_in.disc) /\ Len(Discovered) > 0) =>
        /\ g.out.kind = "table"
        /\ RowKeys(g.out.rows) = ExpectedKeys(Discovered)
        /\ (\A i \in 1..Len(Discovered) :
                ~Answered(g_in.answers[Discovered[i].name[1]]))
           => g.out.rows = <<>>

\* dx and dy were discovered, the fetch of dy raised, the table holds the
\* market of dx alone.
C3_Witness ==
    /\ Finished
    /\ Answered(g_in.disc) /\ Len(Discovered) = 2
    /\ Answered(g_in.answers["dx"]) /\ ~Answered(g_in.answers["dy"])
    /\ g.out.kind = "table"
    /\ Len(g.out.rows) = 1 /\ g.out.rows[1].asset = "dx:A"

\* The snapshot entry a row was built from.
SnapshotOf(r) ==
    LET ms == MarketsOf(r.dex)
    IN  ms[CHOOSE j \in 1..Len(ms) : ms[j].asset = r.asset]

IsFinite(x) == x.k = "fin"

\* C9 as stated: the USD open interest is non-negative whenever native open
\* interest and mark price both parse as numbers, and 0 when either is absent
\* or unparseable.
C9_AsStated ==
    (Finished /\ g.out.kind = "table") =>
        \A i \in 1..Len(g.out.rows) :
            LET r == g.out.rows[i]
                a == float_of(SnapshotOf(r).open_interest)
                b == float_of(SnapshotOf(r).mark_px)
            IN  IF a # None /\ b # None
                THEN FNonNegative(r.open_interest)
                ELSE r.open_interest = Zero

\* C9: when native open interest and mark price both parse as finite numbers
\* the USD open interest is their product (so it is non-negative when both
\* are, and negative when their signs differ); when either is absent or
\* unparseable and the other is absent, unparseable or finite, it is 0.
C9_Product ==
    (Finished /\ g.out.kind = "table") =>
        \A i \in 1..Len(g.out.rows) :
            LET r == g.out.rows[i]
                usd == r.open_interest
                a == float_of(SnapshotOf(r).open_interest)
                b == float_of(SnapshotOf(r).mark_px)
                finA == a # None /\ IsFinite(a[1])
                finB == b # None /\ IsFinite(b[1])
            IN  /\ (finA /\ finB) =>
                    /\ IsFinite(usd)
                    /\ usd.p * a[1].q * b[1].q = a[1].p * b[1].p * usd.q
                    /\ (a[1].p >= 0 /\ b[1].p >= 0) => usd.p >= 0
                /\ ((a = None \/ b = None) /\ (a = None \/ finA) /\ (b = None \/ finB))
                   => usd = Zero

\* A finished call whose only row has native open interest 1.5 and mark
\* price 2, and carries their product 3.
C9_Witness ==
    /\ Finished /\ g.out.kind = "table" /\ Len(g.out.rows) = 1
    /\ SnapshotOf(g.out.rows[1]).open_interest = Some("1.5")
    /\ SnapshotOf(g.out.rows[1]).mark_px = Some("2")
    /\ g.out.rows[1].open_interest = Fin(3, 1)

\* The cap pairs of the discovered sub-exchanges, flattened in list order.
RECURSIVE AllCapPairs(_)
AllCapPairs(dexes) ==
    IF dexes = <<>> THEN <<>>
    ELSE (IF Head(dexes).caps = None THEN <<>> ELSE Head(dexes).caps[1])
         \o AllCapPairs(Tail(dexes))

\* The caps of the inputs that float() accepts, and those among them > 0.
NumericCaps == {Some("100"), Some("7"), Some("50"), Some("inf"), Some("0"),
                Some("-5"), Some("nan")}
PositiveCaps == {Some("100"), Some("7"), Some("50"), Some("inf")}

\* The positions of the pairs that make a lookup entry for the asset.
EntriesFor(asset) ==
    LET ps == AllCapPairs(Discovered)
    IN  {i \in 1..Len(ps) :
            /\ Len(ps[i]) >= 2
            /\ ps[i][1] = Some(asset)
            /\ ps[i][2] \in NumericCaps}

Last(S) == CHOOSE i \in S : \A j \in S : j <= i

\* C10: a row's oi_cap_pct is present if and only if the lookup built from the
\* sub-exchanges' cap pairs holds a cap > 0 for its asset; null and short
\* pairs and non-numeric caps make no entry; a missing, zero or negative cap
\* gives an absent percentage.
C10_CapPct ==
    (Finished /\ g.out.kind = "table") =>
        \A i \in 1..Len(g.out.rows) :
            LET r == g.out.rows[i]
                es == EntriesFor(r.asset)
                ps == AllCapPairs(Discovered)
            IN  /\ (r.oi_cap # None) <=> (es # {})
                /\ (r.oi_cap_pct # None) <=>
                       (es # {} /\ ps[Last(es)][2] \in PositiveCaps)

\* The percentage is present from the pair [dx:A, 100] although a later pair
\* for dx:A is null, short or carries a non-numeric cap.
C10_Witness ==
    /\ Finished /\ g.out.kind = "table" /\ Len(g.out.rows) = 1
    /\ g.out.rows[1].oi_cap_pct = Some(Fin(6, 1))
    /\ LET ps == AllCapPairs(Discovered)
       IN  /\ Len(ps) = 2
           /\ ps[1] = CapPair("dx:A", Some("100"))
           /\ ps[2] \notin {CapPair("dx:A", c) : c \in NumericCaps}

\* The position of a row's asset in the list its market fetch returned.
FetchPos(r) ==
    LET ms == MarketsOf(r.dex)
    IN  CHOOSE j \in 1..Len(ms) : ms[j].asset = r.asset

\* The sub-exchange identifiers of the inputs, in ascending order.
DexBefore(a, b) == a = "dx" /\ b = "dy"

\* The volume a row carries, as the snapshot wrote it: 0 when it is missing.
VolumeOf(r) ==
    LET v == SnapshotOf(r).day_ntl_vlm
    IN  IF v = Some("10") THEN 10 ELSE IF v = Some("20") THEN 20
        ELSE IF v = Some("99") THEN 99 ELSE 0

HasVolume(r) == SnapshotOf(r).day_ntl_vlm \in {Some("10"), Some("20"), Some("99")}

\* C11: the rows are ordered by sub-exchange identifier ascending; within one
\* sub-exchange the 24h volume is non-increasing (rows without a volume come
\* after those with one), and rows of one sub-exchange with equal volume keep
\* the order in which the market fetch returned them.
C11_Sorted ==
    (Finished /\ g.out.kind = "table") =>
        \A i \in 1..Len(g.out.rows) : \A j \in 1..Len(g.out.rows) :
            LET a == g.out.rows[i]
                b == g.out.rows[j]
            IN  (i < j) =>
                    /\ ~DexBefore(b.dex, a.dex)
                    /\ (a.dex = b.dex /\ HasVolume(b)) =>
                           (HasVolume(a) /\ VolumeOf(a) >= VolumeOf(b))
                    /\ (a.dex = b.dex /\ HasVolume(a) = HasVolume(b)
                        /\ VolumeOf(a) = VolumeOf(b)) => FetchPos(a) < FetchPos(b)

\* dy was discovered first; dx's markets came as A (10), B (20), C (20) and
\* are returned as B, C, A, before the market of dy.
C11_Witness ==
    /\ Finished /\ g.out.kind = "table" /\ Len(g.out.rows) = 4
    /\ Discovered[1].name = Some("dy")
    /\ [i \in 1..4 |-> g.out.rows[i].asset] = <<"dx:B", "dx:C", "dx:A", "dy:B">>
    /\ VolumeOf(g.out.rows[1]) = 20 /\ VolumeOf(g.out.rows[2]) = 20
    /\ VolumeOf(g.out.rows[3]) = 10

\* ---- observations on a call of get_dexes or get_dex_markets ----
QueryReturned(fn) == q_pc = "done" /\ q_fn = fn /\ q_out.kind = "return"

\* The JSON body the request was answered with.
QueryData == DecidingAnswer(q_resps, 1).body

\* The metadata array and the pricing-context array of the answer.
UniverseOf(data) ==
    IF data.n > 0 /\ data.universe # None THEN data.universe[1] ELSE <<>>
CtxsOf(data) == IF data.n > 1 THEN data.ctxs ELSE <<>>

\* The k-th smallest member of a set of positions.
KthOf(S, k) == CHOOSE i \in S : Cardinality({j \in S : j <= i}) = k

\* The positions of the metadata array that are not delisted and have a
\* pricing-context slot.
ListedAt(data) ==
    {i \in 1..Len(UniverseOf(data)) :
        ~UniverseOf(data)[i].isDelisted /\ i <= Len(CtxsOf(data))}

\* C12: get_dex_markets returns no snapshot of an asset flagged delisted, and
\* one snapshot, in metadata order, for every asset that is not flagged
\* delisted and has a pricing-context slot at its index.
C12_DelistedDropped ==
    QueryReturned("get_dex_markets") =>
        LET out == q_out.value
            U == UniverseOf(QueryData)
            L == ListedAt(QueryData)
        IN  /\ Len(out) = Cardinality(L)
            /\ \A k \in 1..Len(out) : out[k].asset = U[KthOf(L, k)].name[1]
            /\ \A k \in 1..Len(out) : \A i \in 1..Len(U) :
                   U[i].isDelisted => out[k].asset # U[i].name[1]

\* m1 is delisted, m2 is not, both have a context: only m2 is returned.
C12_Witness ==
    /\ QueryReturned("get_dex_markets")
    /\ Len(UniverseOf(QueryData)) = 2 /\ Len(CtxsOf(QueryData)) >= 2
    /\ UniverseOf(QueryData)[1].isDelisted
    /\ ~UniverseOf(QueryData)[2].isDelisted
    /\ Len(q_out.value) = 1 /\ q_out.value[1].asset = "m2"

\* C14: get_dexes returns exactly the non-null entries of the discovery
\* response, in their original order.
C14_NonNullInOrder ==
    QueryReturned("get_dexes") =>
        LET out == q_out.value
            data == QueryData
            NN == {i \in 1..Len(data) : data[i] # None}
        IN  /\ Len(out) = Cardinality(NN)
            /\ \A k \in 1..Len(out) : out[k] = data[KthOf(NN, k)][1]

\* [null, dy, null] yields exactly dy.
C14_Witness ==
    /\ QueryReturned("get_dexes")
    /\ QueryData = <<None, Some(DexY), None>>
    /\ q_out.value = <<DexY>>

AllAbsent(m) ==
    /\ m.funding = None /\ m.open_interest = None /\ m.prev_day_px = None
    /\ m.day_ntl_vlm = None /\ m.mark_px = None /\ m.oracle_px = None

\* C15: an asset that is not delisted and whose pricing context is missing (a
\* null slot, or a context array that ends before its index) still yields a
\* snapshot, with every pricing field absent, and the call raises no error.
C15_MissingContextAllAbsent ==
    (q_pc = "done" /\ q_fn = "get_dex_markets" /\ Answered(q_resps)) =>
        /\ q_out.kind = "return"
        /\ LET out == q_out.value
               U == UniverseOf(QueryData)
               C == CtxsOf(QueryData)
           IN  \A i \in 1..Len(U) :
                   (~U[i].isDelisted /\ (i > Len(C) \/ C[i] = None)) =>
                       \E k \in 1..Len(out) :
                           out[k].asset = U[i].name[1] /\ AllAbsent(out[k])

\* C13: within one call of _get_listing_dates at most 12 resolution tasks run
\* at once, whatever the 6-permit candle gate allows.
C13_AtMostTwelveRunning == \A c \in Calls : Running(calls[c]) <= PoolWorkers

\* Twelve tasks of one call run: six hold a permit, six more wait at the gate
\* or parse their fallback, and a thirteenth is still queued.
C13_Witness ==
    /\ Running(calls["t1"]) = PoolWorkers
    /\ CountIn(calls["t1"].tasks, {"holding"}) = CandlePermits
    /\ CountIn(calls["t1"].tasks, {"waiting"}) >= 1
    /\ CountIn(calls["t1"].tasks, {"released"}) >= 1
    /\ CountIn(calls["t1"].tasks, {"queued"}) >= 1

RECURSIVE TwoToThe(_)
TwoToThe(n) == IF n = 0 THEN 1 ELSE 2 * TwoToThe(n - 1)

\* C16: the k-th sleep of a call lasts 2^(k-1) seconds; a sleep follows each
\* rate-limited answer to one of the first `retries` attempts and nothing
\* else, and no sleep follows the final attempt.
C16_Backoff ==
    (p_pc = "done") =>
        /\ \A k \in 1..Len(Sleeps(p_log)) : Sleeps(p_log)[k].arg = TwoToThe(k - 1)
        /\ \A i \in 1..Len(p_log) :
               LET e == p_log[i]
               IN  /\ (e.ev = "sleep") =>
                        /\ i > 1 /\ p_log[i - 1].ev = "request"
                        /\ p_log[i - 1].arg <= p_retries
                        /\ p_resps[p_log[i - 1].arg].status = RateLimited
                   /\ (e.ev = "request" /\ e.arg <= p_retries
                       /\ p_resps[e.arg].status = RateLimited) =>
                        (i < Len(p_log) /\ p_log[i + 1].ev = "sleep")
        /\ p_log[Len(p_log)].ev = "request"

\* The default budget, every answer a 429: sleeps of 1, 2, 4 and 8 seconds
\* between five requests, none after the fifth.
C16_Witness ==
    /\ p_pc = "done" /\ p_retries = DefaultRetries
    /\ [k \in 1..Len(Sleeps(p_log)) |-> Sleeps(p_log)[k].arg] = <<1, 2, 4, 8>>
    /\ NumRequests(p_log) = DefaultRetries + 1
    /\ p_log[Len(p_log)] = Request(DefaultRetries + 1)

\* C18: the gate leaks no permit: the free permits are the 6 minus the tasks
\* inside the gated section, so with no task inside all 6 are free; a task
\* that left the section without a candle and has its fallback still to
\* parse holds none.
C18_NoPermitLeak ==
    /\ sem = CandlePermits - InFlight
    /\ (InFlight = 0) => (sem = CandlePermits)

\* Tasks have left the gated section without a candle and have not parsed
\* their fallback yet, others have left it with one; nothing is inside and
\* all permits are free.
C18_Witness ==
    /\ InFlight = 0 /\ sem = CandlePermits
    /\ \E c \in Calls :
          /\ CountIn(calls[c].tasks, {"released"}) >= 2
          /\ CountIn(calls[c].tasks, {"done"}) >= 1

\* C19: when a call of _get_listing_dates returns, every asset of its argument
\* list is a key of the returned mapping and of the cache, and the returned
\* value is the one the cache holds at that moment.
C19_ReturnsCacheValues ==
    [][\A c \in Calls :
          (calls[c].pc \in {"scan", "pool"} /\ calls'[c].pc = "done") =>
              \A a \in calls'[c].assets :
                  /\ a \in DOMAIN calls'[c].results
                  /\ a \in DOMAIN cache'
                  /\ calls'[c].results[a] = cache'[a]]_vars

\* The run in which every future completes in submission order: the market
\* fetches in the order of the discovered list ...
RECURSIVE CollectInOrder(_, _)
CollectInOrder(frame, i) ==
    IF i > Len(frame.dexes) THEN frame
    ELSE CollectInOrder(
             collect_markets(frame, i,
                 future_result(g_in.answers[GetOr(frame.dexes[i].name, "")])),
             i + 1)

\* ... and the listing dates one row after the other, from an empty cache.
RECURSIVE DatesInOrder(_, _)
DatesInOrder(raw_rows, dates) ==
    IF raw_rows = <<>> THEN dates
    ELSE LET r == Head(raw_rows)
             script == CHOOSE x \in candle_env[r.asset] : TRUE
         IN  DatesInOrder(Tail(raw_rows),
                 IF r.asset \in DOMAIN dates THEN dates
                 ELSE DictSet(dates, r.asset,
                              _fetch_listing_date(r.fallback_iso, script)))

SequentialOutcome ==
    LET f0 == start_aggregation(g_in.disc)
        f1 == CollectInOrder(f0, 1)
    IN  IF f0.pc = "done" THEN f0.out
        ELSE IF f1.raw_rows = <<>> THEN Table(<<>>)
        ELSE Table(sort_values(final_rows(f1.raw_rows,
                                          DatesInOrder(f1.raw_rows, EmptyDict),
                                          g_in.now)))

\* C20: with fixed answers, distinct sub-exchange identifiers and distinct
\* asset ids, the table get_all_markets returns (rows and order) is the same
\* whatever the order in which the market fetches and the listing-date
\* resolutions complete: it is the table of the run that completes them in
\* submission order.
C20_OrderIndependent == Finished => g.out = SequentialOutcome

\* Two sub-exchanges gave rows and the fetch of the one discovered second
\* completed first; the table is returned.
C20_Witness ==
    /\ Finished /\ g.out.kind = "table" /\ Len(g.out.rows) >= 2
    /\ Len(Discovered) = 2
    /\ g.raw_rows[1].dex = Discovered[2].name[1]
    /\ g.raw_rows[Len(g.raw_rows)].dex = Discovered[1].name[1]

\* A fan-out has returned only if none of its sub-tasks is outstanding.
JoinedBeforeReturn ==
    /\ (g.pc \in {"dates", "done"}) => (g.pending = {})
    /\ \A c \in Calls : (calls[c].pc = "done") => (calls[c].tasks = EmptyBag)
    /\ (g.pc = "done" /\ g.raw_rows # <<>>) => (calls["t1"].pc = "done")

\* The call ends by raising only out of its discovery phase: the perpDexs
\* request failed, or it listed no sub-exchange (the ValueError of C2).
RaisedInDiscoveryOnly ==
    (Finished /\ g.out.kind = "raise") => (~Answered(g_in.disc) \/ ZeroSubExchanges)

\* C17: when every HTTP call returns or raises, every call of get_all_markets
\* ends, also while another cycle resolves listing dates through the same
\* pool size, gate and cache: it returns its table, unless its discovery
\* phase raised; the other cycle's resolution ends too; and no fan-out
\* returns before all its own sub-tasks have completed or failed.
C17_Terminates ==
    /\ []JoinedBeforeReturn
    /\ []RaisedInDiscoveryOnly
    /\ <>Finished
    /\ \A c \in Calls : (calls[c].pc \in {"scan", "pool"}) ~> (calls[c].pc = "done")

\* The gate is saturated across cycles: the other cycle holds all six permits
\* while this aggregation's own resolution of dy:B waits at the gate.
C17_Witness ==
    /\ g.pc = "dates"
    /\ sem = 0
    /\ CountIn(calls["t2"].tasks, {"holding"}) = CandlePermits
    /\ CountIn(calls["t1"].tasks, {"waiting"}) = 1
====
